---- MODULE Spec2Model ----
(***************************************************************************)
(* Governed SQL query gateway (celine-eu/dataset-api).                     *)
(*                                                                         *)
(* The module models, from the Python sources:                             *)
(*   - the access gate (security/governance.py, security/disclosure.py),   *)
(*   - the row-filter rewriter (row_filters/apply.py),                     *)
(*   - the row-filter registry and its TTL cache (registry.py, cache.py),  *)
(*   - the SQL validator (api/dataset_query/parser.py),                    *)
(*   - the query executor (api/dataset_query/executor.py).                 *)
(*                                                                         *)
(* Each component has its own specification (SpecGate, SpecRewrite,        *)
(* SpecCache, SpecParse) over the shared variables; Spec is the request    *)
(* pipeline of execute_query.                                              *)
(***************************************************************************)
EXTENDS Integers, Sequences, FiniteSets, TLC

VARIABLES
    policies_check_enabled, \* settings.policies_check_enabled
    policy_engine,          \* governance._policy_engine (module global)
    gate,                   \* the last enforce_dataset_access call and its outcome
    rw,                     \* apply_row_filter_plans: its arguments and its result
    store,                  \* TTLCache._store of the registry, in insertion order
    now,                    \* time.time()
    calls,                  \* the resolve_with_cache coroutines of the process
    resolveLog,             \* the handler.resolve invocations made so far
    ps,                     \* parse_sql_query: its argument and its outcome
    catalogue,              \* the DatasetEntry rows of the catalogue, by dataset_id
    ex,                     \* execute_query: the request and its local variables
    io                      \* the database statements and engine calls of the request

gateVars == <<policies_check_enabled, policy_engine, gate>>
cacheVars == <<store, now, calls, resolveLog>>
exVars == <<catalogue, ex, io>>

vars == <<policies_check_enabled, policy_engine, gate, rw, store, now, calls,
          resolveLog, ps, catalogue, ex, io>>

------------------------------------------------------------------------------
(* Values *)

NULL == "<null>"

\* user is Optional[AuthenticatedUser]; NoUser is None
NoUser == "<none>"
Users == {"alice", "svc"}
OptUsers == Users \cup {NoUser}

\* values entry.access_level can hold in a catalogue row (str | None)
AccessLevelValues ==
    {NULL, "", "open", "OPEN", "internal", "restricted", "Restricted", "secret"}

\* str.lower() on the values above
Lower(v) ==
    CASE v = "OPEN" -> "open"
      [] v = "Restricted" -> "restricted"
      [] OTHER -> v

------------------------------------------------------------------------------
(* security/disclosure.py *)

AccessLevel == {"open", "internal", "restricted"}

\* AccessLevel.from_value: ValueError is ok = FALSE
from_value(value) ==
    IF value = NULL \/ value = ""
    THEN [ok |-> TRUE, level |-> "open"]
    ELSE IF Lower(value) \in AccessLevel
         THEN [ok |-> TRUE, level |-> Lower(value)]
         ELSE [ok |-> FALSE, level |-> NULL]

ACCESS_LEVEL_MATRIX_no_auth ==
    [l \in AccessLevel |->
        IF l = "open"
        THEN [requires_auth |-> FALSE, requires_policy |-> FALSE]
        ELSE [requires_auth |-> FALSE, requires_policy |-> TRUE]]

ACCESS_LEVEL_MATRIX ==
    [l \in AccessLevel |->
        IF l = "open"
        THEN [requires_auth |-> FALSE, requires_policy |-> FALSE]
        ELSE [requires_auth |-> TRUE, requires_policy |-> TRUE]]

------------------------------------------------------------------------------
(* security/governance.py *)

\* Python exception classes that occur in the gate, and issubclass
ExcClasses == {"HTTPException", "PolicyEngineError", "RuntimeError"}

IsSubclass(cls, base) ==
    \/ cls = base
    \/ base = "Exception" /\ cls \in ExcClasses

\* what engine.evaluate_decision can do: return a decision or raise
Reasons == {NULL, "", "not a member"}

EvalOutcomes ==
    [kind : {"decision"}, allowed : BOOLEAN, reason : Reasons]
    \cup [kind : {"PolicyEngineError", "RuntimeError"}, allowed : {FALSE}, reason : {NULL}]

\* Python truthiness of decision.reason (str | None)
Truthy(s) == s # NULL /\ s # ""

\* _get_policy_engine: pe is the global before the call, initOk tells whether
\* PolicyEngine(...).load() succeeds; result is the returned engine and the
\* global after the call ("None" or "engine")
get_policy_engine(enabled, pe, initOk) ==
    IF ~enabled
    THEN [engine |-> "None", global |-> pe]
    ELSE IF pe = "None"
         THEN IF initOk
              THEN [engine |-> "engine", global |-> "engine"]
              ELSE [engine |-> "None", global |-> "None"]
         ELSE [engine |-> pe, global |-> pe]

Outcome(status, detail, evaluated, global) ==
    [status |-> status, detail |-> detail, evaluated |-> evaluated, global |-> global]

\* the try block of Step 2: what is returned or raised inside it
EvaluateTry(ev) ==
    IF ev.kind = "decision"
    THEN IF ~ev.allowed
         THEN [raised |-> "HTTPException", status |-> 403,
               detail |-> IF Truthy(ev.reason) THEN ev.reason
                          ELSE "Access denied by policy"]
         ELSE [raised |-> NULL, status |-> 200, detail |-> ""]
    ELSE [raised |-> ev.kind, status |-> 0, detail |-> ""]

\* the except clauses of Step 2, in source order
EvaluateExcept(t) ==
    IF t.raised = NULL
    THEN [status |-> 200, detail |-> ""]
    ELSE IF IsSubclass(t.raised, "PolicyEngineError")
         THEN [status |-> 503, detail |-> "Policy evaluation failed"]
         ELSE IF IsSubclass(t.raised, "Exception")
              THEN [status |-> 503, detail |-> "Policy evaluation failed"]
              ELSE [status |-> t.status, detail |-> t.detail]

\* enforce_dataset_access with Step 2 (the policy evaluation) run before the
\* authentication check of Step 1
enforce_dataset_access_policy_first(access_level, user, enabled, pe, initOk, ev) ==
    LET parsed == from_value(access_level) IN
    IF ~parsed.ok
    THEN Outcome(500, "Invalid dataset access level configuration", FALSE, pe)
    ELSE
    LET policy == ACCESS_LEVEL_MATRIX[parsed.level]
        got == get_policy_engine(enabled, pe, initOk)
        r == EvaluateExcept(EvaluateTry(ev))
        evaluated == policy.requires_policy /\ enabled /\ got.engine # "None"
        global == IF policy.requires_policy THEN got.global ELSE pe
    IN
    IF policy.requires_policy /\ enabled /\ got.engine = "None"
    THEN Outcome(503, "Policy engine unavailable", FALSE, global)
    ELSE IF evaluated /\ r.status # 200
    THEN Outcome(r.status, r.detail, TRUE, global)
    ELSE IF policy.requires_auth /\ user = NoUser
    THEN Outcome(401, "Authentication required for this dataset", evaluated, global)
    ELSE Outcome(200, "", evaluated, global)

\* enforce_dataset_access(entry, user): status 200 stands for a normal return
enforce_dataset_access(access_level, user, enabled, pe, initOk, ev) ==
    LET parsed == from_value(access_level) IN
    IF ~parsed.ok
    THEN Outcome(500, "Invalid dataset access level configuration", FALSE, pe)
    ELSE
    LET policy == ACCESS_LEVEL_MATRIX[parsed.level] IN
    IF policy.requires_auth /\ user = NoUser
    THEN Outcome(401, "Authentication required for this dataset", FALSE, pe)
    ELSE IF ~policy.requires_policy
    THEN Outcome(200, "", FALSE, pe)
    ELSE
    LET got == get_policy_engine(enabled, pe, initOk) IN
    IF ~enabled
    THEN Outcome(200, "", FALSE, got.global)
    ELSE IF got.engine = "None"
    THEN Outcome(503, "Policy engine unavailable", FALSE, got.global)
    ELSE
    LET r == EvaluateExcept(EvaluateTry(ev)) IN
    Outcome(r.status, r.detail, TRUE, got.global)

\* parse_sql_query before any call
PsIdle == ps = [state |-> "idle"]

\* execute_query before any request
ExIdle ==
    /\ catalogue = <<>>
    /\ ex = [pc |-> "idle"]
    /\ io = <<>>

\* apply_row_filter_plans before any call
RwIdle == rw = [state |-> "idle"]

\* the gate before any call
NoCall ==
    [called |-> FALSE, access_level |-> NULL, user |-> NoUser, initOk |-> FALSE,
     engineBefore |-> "None",
     ev |-> [kind |-> "decision", allowed |-> FALSE, reason |-> NULL],
     status |-> 0, detail |-> "", evaluated |-> FALSE]

GateIdle ==
    /\ policies_check_enabled = TRUE
    /\ policy_engine = "None"
    /\ gate = NoCall

------------------------------------------------------------------------------
(* row_filters/cache.py, row_filters/utils.py, row_filters/registry.py *)

MaxTime == 4
MaxLog == 3
NumCalls == 2

\* time.time() is counted in ticks, each a fraction of a second; whole
\* seconds are what int(time.time()), the exp claim and the TTLs count
TicksPerSecond == 2

\* settings.row_filters_cache_ttl, in seconds, and
\* settings.row_filters_cache_maxsize
row_filters_cache_ttl == 1
row_filters_cache_maxsize == 2

\* the exp claim of alice's token, in seconds
AliceExp == 2

CallIds == 1..NumCalls

\* strings are sequences of characters, so that the cache key is the
\* concatenation the code builds
HandlerNames == {<<"h">>}
TableNames == {<<"t">>, <<"u">>}
ArgsDicts == {[column |-> "c"]}

\* user.sub and user.claims.get("exp") of the users of the model
Sub(user) == IF user = "a|b" THEN <<"a", "|", "b">> ELSE <<user>>
HasExp(user) == user = "alice"
ExpClaim(user) == IF user = "alice" THEN AliceExp ELSE 0

\* str(sorted(args.items()))
args_key(args) == <<"[", "(", "column", ",", args.column, ")", "]">>

\* f"{handler_name}|{table}|{sub}|{args_key}"
CacheKey(handler_name, table, sub, args) ==
    handler_name \o <<"|">> \o table \o <<"|">> \o sub \o <<"|">> \o args_key(args)

\* position of key in the store, 0 if absent
IndexOf(st, key) ==
    IF \E i \in 1..Len(st) : st[i].key = key
    THEN CHOOSE i \in 1..Len(st) : st[i].key = key
    ELSE 0

Expired(e, t) == e.expires_at <= t

RemoveAt(st, i) == SubSeq(st, 1, i - 1) \o SubSeq(st, i + 1, Len(st))

\* the None that TTLCache.get returns on a miss
NoValue == [none |-> TRUE]

\* TTLCache.get: the value returned and the store afterwards
cache_get(st, key, t) ==
    LET i == IndexOf(st, key) IN
    IF i = 0 THEN [value |-> NoValue, store |-> st]
    ELSE IF Expired(st[i], t) THEN [value |-> NoValue, store |-> RemoveAt(st, i)]
    ELSE [value |-> st[i].value, store |-> st]

\* an eviction that drops the expired entries only
Evict_expired_only(st, t) ==
    SelectSeq(st, LAMBDA e : ~Expired(e, t))

\* the eviction of TTLCache.set when the store is full
Evict(st, t) ==
    LET live == SelectSeq(st, LAMBDA e : ~Expired(e, t)) IN
    IF Len(live) >= row_filters_cache_maxsize THEN Tail(live) ELSE live

\* TTLCache.set: the store afterwards
cache_set(st, key, value, ttl_seconds, t) ==
    IF ttl_seconds <= 0 THEN st
    ELSE LET kept == IF Len(st) >= row_filters_cache_maxsize THEN Evict(st, t) ELSE st
             e == [key |-> key, value |-> value,
                   expires_at |-> t + ttl_seconds * TicksPerSecond]
             i == IndexOf(kept, key)
         IN IF i = 0 THEN Append(kept, e) ELSE [kept EXCEPT ![i] = e]

Min(a, b) == IF a <= b THEN a ELSE b
Max(a, b) == IF a >= b THEN a ELSE b

\* token_ttl_seconds(user) at time t; none stands for a returned None
token_ttl_seconds(user, t) ==
    LET now_s == t \div TicksPerSecond
        remaining == ExpClaim(user) - now_s
    IN
    IF ~HasExp(user) THEN [none |-> TRUE, ttl |-> 0]
    ELSE IF remaining <= 0 THEN [none |-> FALSE, ttl |-> 0]
    ELSE [none |-> FALSE, ttl |-> remaining]

\* the ttl resolve_with_cache passes to cache.set
effective_ttl(user, t) ==
    LET ttl == token_ttl_seconds(user, t) IN
    IF ttl.none THEN row_filters_cache_ttl
    ELSE Max(0, Min(ttl.ttl, row_filters_cache_ttl))

IdleCall == [pc |-> "idle"]

CacheIdle ==
    /\ store = <<>>
    /\ now = 0
    /\ calls = [c \in CallIds |-> IdleCall]
    /\ resolveLog = <<>>

InitCache ==
    /\ CacheIdle
    /\ GateIdle
    /\ RwIdle
    /\ PsIdle
    /\ ExIdle

\* resolve_with_cache up to its await: the cache lookup and, on a miss, the
\* call of handler.resolve, which suspends the coroutine
ResolveStartOn(c, tables, users) ==
    /\ calls[c].pc = "idle"
    /\ Len(resolveLog) < MaxLog
    /\ \E h \in HandlerNames, t \in tables, u \in users, a \in ArgsDicts :
          LET key == CacheKey(h, t, Sub(u), a)
              got == cache_get(store, key, now)
              inputs == [handler |-> h, table |-> t, user |-> u, args |-> a]
          IN /\ store' = got.store
             /\ IF got.value # NoValue
                THEN /\ calls' = [calls EXCEPT ![c] =
                            [pc |-> "done", inputs |-> inputs, key |-> key,
                             plan |-> got.value, cached |-> TRUE, t |-> now]]
                     /\ UNCHANGED resolveLog
                ELSE /\ calls' = [calls EXCEPT ![c] =
                            [pc |-> "awaiting", inputs |-> inputs, key |-> key]]
                     /\ resolveLog' = Append(resolveLog,
                            [inputs |-> inputs, t |-> now])
    /\ UNCHANGED <<now, gateVars, rw, ps, exVars>>

ResolveStart(c) == ResolveStartOn(c, TableNames, Users)

\* resolve_with_cache after its await: the handler's plan is stored
ResolveFinish(c) ==
    /\ calls[c].pc = "awaiting"
    /\ LET plan == [resolved_for |-> calls[c].inputs, at |-> now]
           ttl == effective_ttl(calls[c].inputs.user, now)
       IN /\ store' = cache_set(store, calls[c].key, plan, ttl, now)
          /\ calls' = [calls EXCEPT ![c] =
                [pc |-> "done", inputs |-> calls[c].inputs, key |-> calls[c].key,
                 plan |-> plan, cached |-> FALSE, t |-> now]]
    /\ UNCHANGED <<now, resolveLog, gateVars, rw, ps, exVars>>

\* the request ends; the coroutine slot serves the next request
ResolveReturn(c) ==
    /\ calls[c].pc = "done"
    /\ calls' = [calls EXCEPT ![c] = IdleCall]
    /\ UNCHANGED <<store, now, resolveLog, gateVars, rw, ps, exVars>>

Tick ==
    /\ now < MaxTime
    /\ now' = now + 1
    /\ UNCHANGED <<store, calls, resolveLog, gateVars, rw, ps, exVars>>

NextCache ==
    \/ \E c \in CallIds : ResolveStart(c)
    \/ \E c \in CallIds : ResolveFinish(c)
    \/ \E c \in CallIds : ResolveReturn(c)
    \/ Tick

SpecCache == InitCache /\ [][NextCache]_vars

------------------------------------------------------------------------------
(* SpecKeys: resolve_with_cache for table names and subs that contain the
   separator of the cache key, all calls within one tick of the clock *)

\* a table name with the separator in it, and subs with and without it
KeyTables == {<<"t">>, <<"t", "|", "a">>}
KeyUsers == {"b", "a|b"}

ResolveStartKeys(c) == ResolveStartOn(c, KeyTables, KeyUsers)

NextKeys ==
    \/ \E c \in CallIds : ResolveStartKeys(c)
    \/ \E c \in CallIds : ResolveFinish(c)
    \/ \E c \in CallIds : ResolveReturn(c)

SpecKeys == InitCache /\ [][NextKeys]_vars

------------------------------------------------------------------------------
(* row_filters/apply.py: the AST and the rewriter *)

\* Expression nodes (sqlglot exp.*).  "atom" is a comparison of the user's
\* SQL (such as id = 1), kept opaque; a Column carries the qualifying table
\* (NULL if unqualified).
Atom(n) == [k |-> "atom", name |-> n]
Column(n, t) == [k |-> "column", name |-> n, table |-> t]
Literal(v) == [k |-> "literal", value |-> v]
EQ(l, r) == [k |-> "eq", l |-> l, r |-> r]
Boolean(v) == [k |-> "bool", v |-> v]
And(l, r) == [k |-> "and", l |-> l, r |-> r]
Or(l, r) == [k |-> "or", l |-> l, r |-> r]
Paren(e) == [k |-> "paren", e |-> e]
NoWhere == [k |-> "none"]

\* exp.In(this=column, query=exp.Subquery(this=select)): query is the
\* subquery's SELECT, with the column it selects, its FROM and its WHERE
In(this, query) == [k |-> "in", this |-> this, query |-> query]

\* exp.Table: this is the Identifier's name, db the schema part, alias the alias
Table(this, db, alias) == [this |-> this, db |-> db, alias |-> alias]

\* _table_name
table_name(table) == table.this

\* exp.Table.alias_or_name
alias_or_name(table) == IF table.alias # NULL THEN table.alias ELSE table.this

\* _qualify_columns, on a copy of the template
RECURSIVE qualify_columns(_, _)
qualify_columns(e, alias) ==
    CASE e.k = "column" ->
            IF e.table = NULL THEN Column(e.name, alias) ELSE e
      [] e.k \in {"and", "or", "eq"} ->
            [k |-> e.k, l |-> qualify_columns(e.l, alias),
             r |-> qualify_columns(e.r, alias)]
      [] e.k = "paren" -> Paren(qualify_columns(e.e, alias))
      [] e.k = "in" ->
            In(qualify_columns(e.this, alias),
               [e.query EXCEPT !.column = qualify_columns(@, alias),
                               !.where = qualify_columns(@, alias)])
      [] OTHER -> e

\* the template a plan holds after _qualify_columns qualified it in place
template_after_in_place(template, alias) == qualify_columns(template, alias)

\* the template a plan holds after _qualify_columns(template, alias): the
\* function works on e = expr.copy()
template_after(template, alias) ==
    template

\* _add_where: the select's WHERE after the call
add_where(where, condition) ==
    IF where.k # "none"
    THEN And(where, condition)
    ELSE condition

RECURSIVE visit_injected(_, _)

\* the (table, plan) pairs of one select in the order of the two loops
\* "for table in tables" / "for plan in plans_by_table[name]"
RECURSIVE PlanConds(_, _, _, _)
PlanConds(from, plans, ti, pi) ==
    IF ti > Len(from) THEN <<>>
    ELSE IF pi > Len(plans) THEN PlanConds(from, plans, ti + 1, 1)
    ELSE LET p == plans[pi] IN
         IF /\ p.table = table_name(from[ti])
            /\ p.kind = "predicate"
            /\ p.predicate_template.k # "none"
         THEN <<visit_injected(qualify_columns(p.predicate_template,
                                               alias_or_name(from[ti])), plans)>>
                  \o PlanConds(from, plans, ti, pi + 1)
         ELSE PlanConds(from, plans, ti, pi + 1)

RECURSIVE AddAll(_, _, _)
AddAll(where, conds, i) ==
    IF i > Len(conds) THEN where
    ELSE AddAll(add_where(where, conds[i]), conds, i + 1)

\* out.find_all(exp.Select) walks breadth first and lists a node's children
\* after the loop body ran for it, so the SELECT of a subquery that the body
\* injected is visited too, and filtered like any other
visit_injected(cond, plans) ==
    IF cond.k = "in"
    THEN [cond EXCEPT !.query.where =
             AddAll(@, PlanConds(cond.query.from, plans, 1, 1), 1)]
    ELSE cond

\* the template of a plan for the named table after apply_row_filter_plans
\* qualified it for every occurrence of the table, from select si, table ti on
RECURSIVE TemplateAfter(_, _, _, _, _)
TemplateAfter(template, ast, name, si, ti) ==
    IF si > Len(ast) THEN template
    ELSE IF ti > Len(ast[si].from) THEN TemplateAfter(template, ast, name, si + 1, 1)
    ELSE TemplateAfter(
            IF table_name(ast[si].from[ti]) = name
            THEN template_after(template, alias_or_name(ast[si].from[ti]))
            ELSE template,
            ast, name, si, ti + 1)

\* the plans as apply_row_filter_plans(ast, plans) leaves them
plans_after(ast, plans) ==
    IF \E i \in 1..Len(plans) : plans[i].kind = "deny"
    THEN plans
    ELSE [i \in 1..Len(plans) |->
            [plans[i] EXCEPT !.predicate_template =
                TemplateAfter(@, ast, plans[i].table, 1, 1)]]

\* the ast argument as apply_row_filter_plans leaves it: the function works
\* on out = ast.copy()
ast_after(ast, plans) == ast

\* apply_row_filter_plans(ast, plans): ast is the sequence of the query's
\* SELECT nodes in find_all order, the first being the top-level one
apply_row_filter_plans(ast, plans) ==
    IF \E i \in 1..Len(plans) : plans[i].kind = "deny"
    THEN [ast EXCEPT ![1].where = add_where(@, Boolean(FALSE))]
    ELSE [i \in 1..Len(ast) |->
            [ast[i] EXCEPT !.where =
                AddAll(@, PlanConds(ast[i].from, plans, 1, 1), 1)]]

------------------------------------------------------------------------------
(* The SQL text of a WHERE and what the database makes of it *)

Tok(sym, leaf) == [sym |-> sym, leaf |-> leaf]

\* Generator.sql of a condition: a connector is written "left OP right",
\* parentheses appear only where the tree has a Paren node
RECURSIVE sql(_)
sql(e) ==
    CASE e.k = "atom" -> <<Tok("leaf", <<e.name>>)>>
      [] e.k = "eq" -> <<Tok("leaf", <<e.l.table, e.l.name, e.r.value>>)>>
      [] e.k = "bool" -> <<Tok(IF e.v THEN "TRUE" ELSE "FALSE", <<>>)>>
      [] e.k = "and" -> sql(e.l) \o <<Tok("AND", <<>>)>> \o sql(e.r)
      [] e.k = "or" -> sql(e.l) \o <<Tok("OR", <<>>)>> \o sql(e.r)
      [] e.k = "paren" -> <<Tok("(", <<>>)>> \o sql(e.e) \o <<Tok(")", <<>>)>>

\* nesting depth of position i in a token sequence
RECURSIVE DepthAt(_, _)
DepthAt(toks, i) ==
    IF i <= 1 THEN 0
    ELSE DepthAt(toks, i - 1)
         + (IF toks[i - 1].sym = "(" THEN 1 ELSE 0)
         - (IF toks[i].sym = ")" THEN 1 ELSE 0)

\* positions of the connector op outside every parenthesis
TopLevel(toks, op) ==
    {i \in 1..Len(toks) : toks[i].sym = op /\ DepthAt(toks, i) = 0}

\* the operands between the positions cuts (a set) of toks
Operands(toks, cuts) ==
    LET bounds == cuts \cup {0, Len(toks) + 1} IN
    {SubSeq(toks, a + 1, b - 1) :
        <<a, b>> \in {c \in bounds \X bounds :
                        /\ c[1] < c[2]
                        /\ ~\E m \in bounds : c[1] < m /\ m < c[2]}}

\* the database's reading of a condition: OR binds weaker than AND, which
\* binds weaker than a comparison; trueLeaves are the comparisons that hold
\* for the row at hand
RECURSIVE PgEval(_, _)
PgEval(toks, trueLeaves) ==
    LET ors == TopLevel(toks, "OR")
        ands == TopLevel(toks, "AND") IN
    IF ors # {}
    THEN \E d \in Operands(toks, ors) : PgEval(d, trueLeaves)
    ELSE IF ands # {}
    THEN \A c \in Operands(toks, ands) : PgEval(c, trueLeaves)
    ELSE IF toks[1].sym = "("
    THEN PgEval(SubSeq(toks, 2, Len(toks) - 1), trueLeaves)
    ELSE CASE toks[1].sym = "TRUE" -> TRUE
           [] toks[1].sym = "FALSE" -> FALSE
           [] OTHER -> toks[1].leaf \in trueLeaves

\* a row passes a SELECT when the SELECT has no WHERE or its WHERE holds
RowPasses(where, trueLeaves) ==
    where.k = "none" \/ PgEval(sql(where), trueLeaves)

------------------------------------------------------------------------------
(* SpecRewrite: apply_row_filter_plans on bounded queries and plans *)

MaxSelects == 2

UserAtoms == {"a", "b"}

WhereShapes ==
    {NoWhere, Atom("a"), And(Atom("a"), Atom("b")), Or(Atom("a"), Atom("b")),
     Paren(Or(Atom("a"), Atom("b")))}

FromShapes ==
    {<<Table("meters", NULL, NULL)>>, <<Table("meters", "public", "m")>>,
     <<Table("sites", NULL, NULL)>>,
     <<Table("meters", NULL, "m"), Table("sites", NULL, "s")>>}

Selects == [from : FromShapes, where : WhereShapes]

Queries == UNION {[1..n -> Selects] : n \in 1..MaxSelects}

\* RowFilterPlan (models.py); the templates are those of direct_user_match
Predicate(t, col, val) ==
    [table |-> t, kind |-> "predicate",
     predicate_template |-> EQ(Column(col, NULL), Literal(val))]
Deny(t) == [table |-> t, kind |-> "deny", predicate_template |-> NoWhere]

PlanLists ==
    {<<>>, <<Predicate("meters", "owner_sub", "alice")>>,
     <<Predicate("meters", "owner_sub", "alice"), Predicate("sites", "org", "acme")>>,
     <<Deny("meters")>>,
     <<Predicate("sites", "org", "acme"), Deny("meters")>>}

\* the plan of table_pointer (handlers/table_pointer.py:47-62)
TablePointer(t, column, pointer_table, pointer_key_column, pointer_subject_column, sub) ==
    [table |-> t, kind |-> "predicate",
     predicate_template |->
        In(Column(column, NULL),
           [column |-> Column(pointer_key_column, NULL),
            from |-> <<Table(pointer_table, NULL, NULL)>>,
            where |-> EQ(Column(pointer_subject_column, NULL), Literal(sub))])]

PointerPlanLists ==
    PlanLists \cup
    {<<TablePointer("meters", "sensor_id", "pointers", "sensor", "user_id", "alice")>>,
     <<TablePointer("meters", "sensor_id", "pointers", "sensor", "user_id", "alice"),
       Predicate("sites", "org", "acme")>>,
     <<TablePointer("meters", "site_id", "sites", "id", "user_id", "alice"),
       Predicate("sites", "org", "acme")>>}

\* how often one process applies the plans it holds
MaxApplications == 2

InitRewrite ==
    /\ \E q \in Queries, plans \in PlanLists :
          rw = [state |-> "input", ast |-> q, plans |-> plans]
    /\ GateIdle
    /\ CacheIdle
    /\ PsIdle
    /\ ExIdle

\* one call apply_row_filter_plans(ast, plans): its result, and the two
\* arguments as the call leaves them
ApplyRowFilters ==
    /\ rw.state = "input"
    /\ rw' = [state |-> "rewritten", ast |-> rw.ast, plans |-> rw.plans,
              out |-> apply_row_filter_plans(rw.ast, rw.plans),
              ast_after |-> ast_after(rw.ast, rw.plans),
              plans_after |-> plans_after(rw.ast, rw.plans),
              applications |-> 1]
    /\ UNCHANGED <<gateVars, cacheVars, ps, exVars>>

NextRewrite == ApplyRowFilters

SpecRewrite == InitRewrite /\ [][NextRewrite]_vars

------------------------------------------------------------------------------
(* SpecPointer: apply_row_filter_plans applied repeatedly to the plans a
   process holds (cached plans), table_pointer plans included *)

InitPointer ==
    /\ \E q \in Queries, plans \in PointerPlanLists :
          rw = [state |-> "input", ast |-> q, plans |-> plans]
    /\ GateIdle
    /\ CacheIdle
    /\ PsIdle
    /\ ExIdle

\* a later call with the same objects
ApplyRowFiltersAgain ==
    /\ rw.state = "rewritten"
    /\ rw.applications < MaxApplications
    /\ rw' = [rw EXCEPT !.out = apply_row_filter_plans(rw.ast_after, rw.plans_after),
                        !.ast_after = ast_after(rw.ast_after, rw.plans_after),
                        !.plans_after = plans_after(rw.ast_after, rw.plans_after),
                        !.applications = @ + 1]
    /\ UNCHANGED <<gateVars, cacheVars, ps, exVars>>

NextPointer == ApplyRowFilters \/ ApplyRowFiltersAgain

SpecPointer == InitPointer /\ [][NextPointer]_vars

------------------------------------------------------------------------------
(* api/dataset_query/parser.py *)

\* a function's outcome: a returned value or a raised exception
Ok(v) == [exc |-> NULL, value |-> v]
bad_request(msg) == [exc |-> "HTTPException", status |-> 400, detail |-> msg]
Raise(cls) == [exc |-> cls, status |-> 0, detail |-> ""]

Range(seq) == {seq[i] : i \in 1..Len(seq)}

\* SQL text: a sequence of characters, "x" standing for any run of
\* characters other than a quote, a semicolon and white space
MaxSqlLen == 3
SqlChars == {"x", " ", ";", "'"}
Texts == UNION {[1..n -> SqlChars] : n \in 0..MaxSqlLen}

\* ([^']|'')* matches s[i..b-1]
RECURSIVE BodyMatches(_, _, _)
BodyMatches(s, i, b) ==
    \/ i = b
    \/ i < b /\ s[i] # "'" /\ BodyMatches(s, i + 1, b)
    \/ i + 1 < b /\ s[i] = "'" /\ s[i + 1] = "'" /\ BodyMatches(s, i + 2, b)

\* the closing quotes SAFE_LITERAL can match from the opening quote at idx
LiteralEnds(s, idx) ==
    {b \in (idx + 1)..Len(s) : s[idx] = "'" /\ s[b] = "'" /\ BodyMatches(s, idx + 1, b)}

\* has_unquoted_semicolon, from position idx on (the regex is greedy)
RECURSIVE ScanSemicolon(_, _)
ScanSemicolon(s, idx) ==
    IF idx > Len(s) THEN FALSE
    ELSE IF LiteralEnds(s, idx) # {}
    THEN ScanSemicolon(s,
            1 + CHOOSE b \in LiteralEnds(s, idx) : \A c \in LiteralEnds(s, idx) : c <= b)
    ELSE IF s[idx] = ";" THEN TRUE
    ELSE ScanSemicolon(s, idx + 1)

\* has_unquoted_semicolon reporting every semicolon, quoted or not
has_semicolon_anywhere(s) == \E i \in 1..Len(s) : s[i] = ";"

has_unquoted_semicolon(s) == ScanSemicolon(s, 1)

\* not sql or not sql.strip()
IsBlank(s) == \A i \in 1..Len(s) : s[i] = " "

FORBIDDEN_NODES ==
    {"Insert", "Update", "Delete", "Merge", "Drop", "Alter", "Create",
     "TruncateTable", "Grant", "Revoke", "Commit", "Rollback", "Transaction",
     "Join", "Union", "Intersect", "Except", "Window", "Lateral"}

\* the sqlalchemy Table the query is validated against
DatasetTable == [name |-> "T", c |-> <<"x", "y">>]

\* exp.Select with the args the validator reads; joins is the number of
\* exp.Join nodes, from_ the source of exp.From
Select(with_, from_, expressions, where, distinct, joins) ==
    [type |-> "Select", with_ |-> with_, from_ |-> from_,
     expressions |-> expressions, where |-> where, distinct |-> distinct,
     joins |-> joins]
CTE(alias, this) == [alias |-> alias, this |-> this]
Subquery(this) == [k |-> "subquery", this |-> this]
Star == [k |-> "star"]
NoFrom == [k |-> "none"]
FromTable(this, db, alias) == [k |-> "table", this |-> this, db |-> db, alias |-> alias]

\* exp.Null, exp.Is, and a function call (exp.Func / exp.Anonymous) with its
\* normalised name; exp.Exists is a function node named "exists" whose
\* operand is the subquery
Null == [k |-> "null"]
Is(l, r) == [k |-> "is", l |-> l, r |-> r]
Func(name, args) == [k |-> "func", name |-> name, args |-> args]
Exists(this) == Func("exists", <<Subquery(this)>>)

ALLOWED_FUNCTIONS ==
    {"coalesce", "greatest", "least", "lower", "upper", "length", "abs", "round",
     "max", "min", "st_intersects", "st_contains", "st_within", "st_dwithin",
     "st_geomfromgeojson", "st_setsrid", "st_transform", "st_x", "st_y",
     "st_area", "st_length"}

\* a statement whose text carried a comment: the tokenizer drops the comment
\* from the token stream and keeps it in the comments of a node
Commented(stmt) == [comments |-> <<"comment">>] @@ stmt

\* a Select with a GROUP BY clause
GroupBy(stmt, exprs) == [group |-> exprs] @@ stmt

\* node.args.get(key) is not None
HasArg(node, key) == key \in DOMAIN node

\* the node types stmt.walk() meets
RECURSIVE WalkTypes(_), WalkExprTypes(_)
WalkTypes(stmt) ==
    IF stmt.type # "Select" THEN {stmt.type}
    ELSE {"Select"}
         \cup (IF stmt.joins > 0 THEN {"Join"} ELSE {})
         \cup UNION {WalkTypes(stmt.with_[i].this) : i \in 1..Len(stmt.with_)}
         \cup UNION {WalkExprTypes(stmt.expressions[i]) : i \in 1..Len(stmt.expressions)}
         \cup (IF stmt.where.k = "none" THEN {} ELSE WalkExprTypes(stmt.where))
WalkExprTypes(e) ==
    CASE e.k = "subquery" -> {"Subquery"} \cup WalkTypes(e.this)
      [] e.k \in {"and", "or", "eq", "is"} ->
            {e.k} \cup WalkExprTypes(e.l) \cup WalkExprTypes(e.r)
      [] e.k = "paren" -> {e.k} \cup WalkExprTypes(e.e)
      [] e.k = "func" ->
            {e.k} \cup UNION {WalkExprTypes(e.args[i]) : i \in 1..Len(e.args)}
      [] OTHER -> {e.k}

\* _validate_statement_is_select
validate_statement_is_select(stmt) ==
    IF stmt.type # "Select"
    THEN bad_request("Only SELECT queries are allowed")
    ELSE Ok(stmt)

\* _reject_forbidden_nodes
reject_forbidden_nodes(stmt) ==
    IF WalkTypes(stmt) \cap FORBIDDEN_NODES # {}
    THEN bad_request("Forbidden SQL construct")
    ELSE Ok(stmt)

\* _validate_distinct
validate_distinct(sel) ==
    IF sel.distinct = "on" THEN bad_request("DISTINCT ON is not allowed") ELSE Ok(sel)

\* _validate_from_single_source: the name of the FROM source
validate_from_single_source(sel, dataset_table_name, allowed_cte_names) ==
    IF sel.from_.k = "none" THEN bad_request("FROM clause is required")
    ELSE IF sel.from_.k # "table" THEN bad_request("FROM must reference a table")
    ELSE IF sel.from_.alias # NULL THEN bad_request("Table aliases are not allowed")
    ELSE IF sel.from_.db # NULL THEN bad_request("Qualified table names are not allowed")
    ELSE IF sel.from_.this # dataset_table_name /\ sel.from_.this \notin allowed_cte_names
    THEN bad_request("Access to table is not allowed")
    ELSE Ok(sel.from_.this)

\* the loop of _validate_ctes over with_clause.expressions, from the i-th on
RECURSIVE ValidateCteLoop(_, _, _, _)
ValidateCteLoop(ctelist, i, seen, dataset_table_name) ==
    IF i > Len(ctelist) THEN Ok(SubSeq(ctelist, 1, Len(ctelist)))
    ELSE LET cte == ctelist[i] IN
         IF cte.alias = "" THEN bad_request("CTE missing name")
         ELSE IF cte.alias \in seen THEN bad_request("Duplicate CTE")
         ELSE IF cte.this.type # "Select" THEN bad_request("CTE body must be SELECT")
         ELSE IF reject_forbidden_nodes(cte.this).exc # NULL
         THEN reject_forbidden_nodes(cte.this)
         ELSE IF validate_distinct(cte.this).exc # NULL THEN validate_distinct(cte.this)
         ELSE IF validate_from_single_source(cte.this, dataset_table_name, {}).exc # NULL
         THEN validate_from_single_source(cte.this, dataset_table_name, {})
         ELSE ValidateCteLoop(ctelist, i + 1, seen \cup {cte.alias}, dataset_table_name)

\* _validate_ctes: it reads sel.args.get("with"), while the Select nodes the
\* rest of the module reads carry their WITH clause under "with_"
validate_ctes(sel, dataset_table_name) ==
    IF ~HasArg(sel, "with") THEN Ok(<<>>)
    ELSE ValidateCteLoop(sel["with"], 1, {}, dataset_table_name)

\* _resolve_column: cte_sources maps a CTE name to the columns of its cte()
resolve_column(col, table, cte_sources) ==
    IF col.table # NULL THEN bad_request("Qualified column references are not allowed")
    ELSE IF col.name \in Range(table.c) THEN Ok(col.name)
    ELSE IF \E n \in DOMAIN cte_sources : col.name \in Range(cte_sources[n])
    THEN Ok(col.name)
    ELSE bad_request("Unknown column")

\* cte_sources[name] = value
DictSet(dict, name, value) ==
    [n \in DOMAIN dict \cup {name} |-> IF n = name THEN value ELSE dict[n]]

EmptyDict == [n \in {} |-> <<>>]

\* from_obj of _build_select (parser.py:567): what a FROM name is resolved to
from_obj(src_name, table) == IF src_name = table.name THEN "table" ELSE "cte"

RECURSIVE ast_to_sqla(_, _, _, _), build_select(_, _, _, _, _),
          BuildCtes(_, _, _, _, _), BuildCols(_, _, _, _, _, _)

\* _ast_to_sqla: the label of the built column element
ast_to_sqla(node, table, cte_sources, allowed_cte_names) ==
    CASE node.k = "paren" -> ast_to_sqla(node.e, table, cte_sources, allowed_cte_names)
      [] node.k \in {"literal", "bool", "null"} -> Ok("anon")
      [] node.k = "column" -> resolve_column(node, table, cte_sources)
      [] node.k \in {"and", "or", "eq"} ->
            LET a == ast_to_sqla(node.l, table, cte_sources, allowed_cte_names) IN
            IF a.exc # NULL THEN a
            ELSE LET b == ast_to_sqla(node.r, table, cte_sources, allowed_cte_names) IN
                 IF b.exc # NULL THEN b ELSE Ok("anon")
      [] node.k = "func" ->
            LET failing == {i \in 1..Len(node.args) :
                    ast_to_sqla(node.args[i], table, cte_sources,
                                allowed_cte_names).exc # NULL}
            IN
            IF node.name \notin ALLOWED_FUNCTIONS
            THEN bad_request("Function not allowed")
            ELSE IF failing # {}
            THEN ast_to_sqla(node.args[CHOOSE i \in failing : \A j \in failing : i <= j],
                             table, cte_sources, allowed_cte_names)
            ELSE Ok("anon")
      [] node.k = "subquery" ->
            LET sq == build_select(node.this, table, cte_sources, allowed_cte_names, TRUE) IN
            IF sq.exc # NULL THEN sq ELSE Ok("anon")
      [] OTHER -> bad_request("Unsupported expression")

\* the second loop over with_.expressions in _build_select, from the i-th on:
\* the cte_sources after it
BuildCtes(ctelist, i, table, cte_sources, local_cte_names) ==
    IF i > Len(ctelist) THEN Ok(cte_sources)
    ELSE LET cte_stmt == build_select(ctelist[i].this, table, cte_sources,
                                      local_cte_names, TRUE) IN
         IF cte_stmt.exc # NULL THEN cte_stmt
         ELSE BuildCtes(ctelist, i + 1, table,
                        DictSet(cte_sources, ctelist[i].alias, cte_stmt.value),
                        local_cte_names)

\* the loop over sel.expressions in _build_select, from the i-th on: sa_cols
BuildCols(exprs, i, from_c, table, cte_sources, local_cte_names) ==
    IF i > Len(exprs) THEN Ok(<<>>)
    ELSE LET rest == BuildCols(exprs, i + 1, from_c, table, cte_sources, local_cte_names) IN
         IF exprs[i].k = "star"
         THEN IF rest.exc # NULL THEN rest ELSE Ok(from_c \o rest.value)
         ELSE LET col == ast_to_sqla(exprs[i], table, cte_sources, local_cte_names) IN
              IF col.exc # NULL THEN col
              ELSE IF rest.exc # NULL THEN rest
              ELSE Ok(<<col.value>> \o rest.value)

\* _build_select: the columns of the built statement
build_select(sel, table, cte_sources, allowed_cte_names, is_subquery) ==
    LET local_cte_names ==
            allowed_cte_names \cup {sel.with_[i].alias : i \in 1..Len(sel.with_)} IN
    IF \E i \in 1..Len(sel.with_) : sel.with_[i].alias = ""
    THEN bad_request("CTE missing name")
    ELSE
    LET built == BuildCtes(sel.with_, 1, table, cte_sources, local_cte_names) IN
    IF built.exc # NULL THEN built
    ELSE
    LET src_name == validate_from_single_source(sel, table.name, local_cte_names) IN
    IF src_name.exc # NULL THEN src_name
    ELSE IF src_name.value # table.name /\ src_name.value \notin DOMAIN built.value
    THEN Raise("KeyError")
    ELSE
    LET from_c == IF from_obj(src_name.value, table) = "table" THEN table.c
                  ELSE built.value[src_name.value]
        sa_cols == BuildCols(sel.expressions, 1, from_c, table, built.value,
                             local_cte_names)
    IN
    IF sa_cols.exc # NULL THEN sa_cols
    ELSE
    LET where == IF sel.where.k = "none" THEN Ok("anon")
                 ELSE ast_to_sqla(sel.where, table, built.value, local_cte_names) IN
    IF where.exc # NULL THEN where
    ELSE IF is_subquery /\ Len(sa_cols.value) # 1
    THEN bad_request("Subquery must return exactly one column")
    ELSE Ok(sa_cols.value)

\* the loop of parse_sql_query over cte_asts, from the i-th on
RECURSIVE BuildCteAsts(_, _, _, _)
BuildCteAsts(cte_asts, i, table, cte_sources) ==
    IF i > Len(cte_asts) THEN Ok(cte_sources)
    ELSE LET cte_stmt == build_select(cte_asts[i].this, table, cte_sources, {}, FALSE) IN
         IF cte_stmt.exc # NULL THEN cte_stmt
         ELSE BuildCteAsts(cte_asts, i + 1, table,
                           DictSet(cte_sources, cte_asts[i].alias, cte_stmt.value))

\* parse_sql_query reaches its call of sqlglot.parse_one (parser.py:629-635)
reaches_parse_one(query) ==
    /\ ~(Len(query) = 0 \/ IsBlank(query))
    /\ ~has_unquoted_semicolon(query)

\* parse_sql_query(sql, table); parsed is what sqlglot.parse_one(sql) returns
\* or raises
parse_sql_query(query, parsed, table) ==
    IF Len(query) = 0 \/ IsBlank(query) THEN bad_request("Empty SQL query")
    ELSE IF has_unquoted_semicolon(query) THEN bad_request("Semicolons are not allowed")
    ELSE IF parsed.type \in {"ParseError", "TokenError", "RecursionError"}
    THEN Raise(parsed.type)
    ELSE
    LET sel == validate_statement_is_select(parsed) IN
    IF sel.exc # NULL THEN sel
    ELSE IF reject_forbidden_nodes(parsed).exc # NULL THEN reject_forbidden_nodes(parsed)
    ELSE IF validate_distinct(parsed).exc # NULL THEN validate_distinct(parsed)
    ELSE
    LET cte_asts == validate_ctes(parsed, table.name) IN
    IF cte_asts.exc # NULL THEN cte_asts
    ELSE
    LET cte_sources == BuildCteAsts(cte_asts.value, 1, table, EmptyDict) IN
    IF cte_sources.exc # NULL THEN cte_sources
    ELSE build_select(parsed, table, cte_sources.value, DOMAIN cte_sources.value, FALSE)

------------------------------------------------------------------------------
(* SpecParse: parse_sql_query on bounded SQL texts and statements *)

\* bodies of CTEs and of scalar subqueries
SimpleSelects ==
    {Select(<<>>, FromTable(f, NULL, NULL), e, NoWhere, "none", 0) :
        f \in {"T", "a", "b"}, e \in {<<Column("x", NULL)>>, <<Star>>}}

CteLists ==
    {<<>>}
    \cup {<<CTE("a", s)>> : s \in SimpleSelects}
    \cup {<<CTE("a", s1), CTE("b", s2)>> : s1 \in SimpleSelects, s2 \in SimpleSelects}

TopFroms ==
    {FromTable("T", NULL, NULL), FromTable("a", NULL, NULL),
     FromTable("other", NULL, NULL), NoFrom}

TopWheres ==
    {NoWhere, EQ(Column("x", NULL), Literal("1")),
     EQ(Column("x", NULL),
        Subquery(Select(<<>>, FromTable("a", NULL, NULL), <<Column("x", NULL)>>,
                        NoWhere, "none", 0)))}

SelectStatements ==
    {Select(w, f, e, c, "none", 0) :
        w \in CteLists, f \in TopFroms, e \in {<<Column("x", NULL)>>, <<Star>>},
        c \in TopWheres}

OtherStatements ==
    {Select(<<>>, FromTable("T", NULL, NULL), <<Star>>, NoWhere, "on", 0),
     Select(<<>>, FromTable("T", NULL, NULL), <<Star>>, NoWhere, "none", 1),
     Select(<<>>, FromTable("T", "pg_catalog", NULL), <<Star>>, NoWhere, "none", 0),
     Select(<<>>, FromTable("T", NULL, "t"), <<Star>>, NoWhere, "none", 0),
     [type |-> "Insert"], [type |-> "Union"]}

\* statements with the constructs of the injection tests, at the top level
\* and inside a CTE body or a scalar subquery
One == Literal("1")
PlainSelect(where) ==
    Select(<<>>, FromTable("T", NULL, NULL), <<Column("x", NULL)>>, where, "none", 0)

InjectionWheres ==
    {EQ(One, One),
     Or(EQ(One, One), EQ(One, One)),
     Paren(EQ(Column("x", NULL), Column("x", NULL))),
     Exists(PlainSelect(NoWhere)),
     Is(Func("pg_sleep", <<Literal("10")>>), Null),
     EQ(Func("pg_sleep", <<Literal("10")>>), One),
     EQ(Func("lower", <<Func("pg_sleep", <<Literal("10")>>)>>), One),
     EQ(Func("lower", <<Column("x", NULL)>>), Literal("a"))}

InjectionStatements ==
    {PlainSelect(w) : w \in InjectionWheres}
    \cup {PlainSelect(EQ(Column("x", NULL), Subquery(PlainSelect(w)))) :
             w \in InjectionWheres}
    \cup {Select(<<CTE("a", PlainSelect(w))>>, FromTable("a", NULL, NULL),
                 <<Column("x", NULL)>>, NoWhere, "none", 0) : w \in InjectionWheres}
    \cup {Select(<<>>, FromTable("T", NULL, NULL),
                 <<Func("pg_sleep", <<Literal("10")>>)>>, NoWhere, "none", 0),
          PlainSelect(EQ(Column("x", NULL), Subquery([type |-> "Union"]))),
          Select(<<CTE("T", PlainSelect(NoWhere))>>, FromTable("T", NULL, NULL),
                 <<Column("x", NULL)>>, NoWhere, "none", 0),
          Select(<<CTE("T", PlainSelect(EQ(Column("x", NULL), One)))>>,
                 FromTable("T", NULL, NULL), <<Star>>, NoWhere, "none", 0),
          Commented(PlainSelect(NoWhere)),
          Commented(PlainSelect(EQ(Column("x", NULL), One))),
          GroupBy(PlainSelect(NoWhere), <<Func("pg_sleep", <<Literal("10")>>)>>),
          GroupBy(PlainSelect(NoWhere), <<Column("x", NULL)>>)}

\* e inside n pairs of parentheses
RECURSIVE Nest(_, _)
Nest(e, n) == IF n = 0 THEN e ELSE Paren(Nest(e, n - 1))

\* numbers of parentheses around the WHERE condition of the deeply nested
\* queries (test_deep_nesting uses 50)
NestDepths == {47, 48, 49, 50, 51, 60}

\* SELECT x FROM T WHERE (((...x = 1...)))
DeepStatements ==
    {PlainSelect(Nest(EQ(Column("x", NULL), One), n)) : n \in NestDepths}

\* what sqlglot.parse_one can make of a text: the tokenizer fails on an
\* unterminated literal, the parser fails on text that is no statement, text
\* without any word is no SELECT; the recursive-descent parser can exhaust
\* the interpreter's stack on deep nesting (RecursionError)
ParseResults(query) ==
    IF Cardinality({i \in 1..Len(query) : query[i] = "'"}) % 2 = 1
    THEN {[type |-> "TokenError"]}
    ELSE IF "x" \notin Range(query)
    THEN {[type |-> "ParseError"], [type |-> "Literal"]}
    ELSE IF query = <<"x">>
    THEN SelectStatements \cup InjectionStatements \cup OtherStatements
         \cup DeepStatements
         \cup {[type |-> "ParseError"], [type |-> "RecursionError"]}
    ELSE OtherStatements \cup {[type |-> "ParseError"]}

InitParse ==
    /\ \E query \in Texts : \E parsed \in ParseResults(query) :
          ps = [state |-> "input", sql |-> query, parsed |-> parsed]
    /\ GateIdle
    /\ RwIdle
    /\ CacheIdle
    /\ ExIdle

ParseSqlQuery ==
    /\ ps.state = "input"
    /\ LET r == parse_sql_query(ps.sql, ps.parsed, DatasetTable) IN
          ps' = [state |-> "parsed", sql |-> ps.sql, parsed |-> ps.parsed,
                 exc |-> r.exc,
                 status |-> IF r.exc = NULL THEN 200 ELSE r.status,
                 detail |-> IF r.exc = NULL THEN "" ELSE r.detail,
                 parse_one_called |-> reaches_parse_one(ps.sql)]
    /\ UNCHANGED <<gateVars, rw, cacheVars, exVars>>

NextParse == ParseSqlQuery

SpecParse == InitParse /\ [][NextParse]_vars

------------------------------------------------------------------------------
(* SpecGate: repeated calls of enforce_dataset_access in one process *)

InitGate ==
    /\ policies_check_enabled \in BOOLEAN
    /\ policy_engine = "None"
    /\ gate = NoCall
    /\ RwIdle
    /\ CacheIdle
    /\ PsIdle
    /\ ExIdle

Enforce ==
    \E al \in AccessLevelValues, u \in OptUsers, initOk \in BOOLEAN, ev \in EvalOutcomes :
        LET o == enforce_dataset_access(al, u, policies_check_enabled,
                                        policy_engine, initOk, ev) IN
        /\ gate' = [called |-> TRUE, access_level |-> al, user |-> u,
                    initOk |-> initOk, engineBefore |-> policy_engine, ev |-> ev,
                    status |-> o.status, detail |-> o.detail,
                    evaluated |-> o.evaluated]
        /\ policy_engine' = o.global
        /\ UNCHANGED <<policies_check_enabled, rw, cacheVars, ps, exVars>>

NextGate == Enforce

SpecGate == InitGate /\ [][NextGate]_vars

------------------------------------------------------------------------------
(* api/dataset_query/executor.py, core/datasets.py *)

DatasetIds == {"ds.a", "ds.b"}

\* DatasetEntry.backend_config: None, or a dict with or without "table"
NoConfig == [isNone |-> TRUE, table |-> NULL]
Config(table) == [isNone |-> FALSE, table |-> table]

PhysicalTable(id) == IF id = "ds.a" THEN "phy_a" ELSE "phy_b"

\* the backends of a catalogue row
Backends(id) ==
    {[backend_type |-> "postgres", backend_config |-> Config(PhysicalTable(id))],
     [backend_type |-> "postgres", backend_config |-> Config(NULL)],
     [backend_type |-> "s3", backend_config |-> NoConfig]}

DatasetEntry(id) ==
    {[dataset_id |-> id, access_level |-> al, expose |-> e,
      backend_type |-> b.backend_type, backend_config |-> b.backend_config] :
        al \in {"open", "internal", "restricted"}, e \in BOOLEAN, b \in Backends(id)}

Catalogues == {c \in [DatasetIds -> UNION {DatasetEntry(id) : id \in DatasetIds}] :
                  \A id \in DatasetIds : c[id].dataset_id = id}

\* what the route hands to execute_query: the path's dataset_id, the optional
\* user, and what the SQL parser makes of the SQL text: the exception it
\* raises (NULL when it returns) and the tables the statement references
Requests ==
    [dataset_id : {"ds.a", "ds.gone"},
     user : {NoUser, "alice"},
     parse : {NULL, "HTTPException", "ValueError"},
     tables : {{}, {"ds.a"}, {"ds.b"}, {"ds.a", "ds.b"}, {"ds.a", "ds.gone"},
               {"ds.a", "ds.gone", "ds.lost"}}]

\* a statement or call that leaves the process
Statement(kind, tables) == [kind |-> kind, tables |-> tables]

Response(status, detail) == [status |-> status, detail |-> detail]

\* ParsedSQL.to_sql(tables_map): the table references of the produced SQL
to_sql(tables, tables_map) ==
    {IF t \in DOMAIN tables_map THEN tables_map[t] ELSE t : t \in tables}

\* the local variables of execute_query after a step
Frame(pc, response) ==
    [pc |-> pc, request |-> ex.request, datasets |-> ex.datasets,
     unknown |-> ex.unknown, pending |-> ex.pending,
     tables_map |-> ex.tables_map, gated |-> ex.gated,
     complete_sql |-> ex.complete_sql, session |-> ex.session,
     response |-> response]

Running(pc) == Frame(pc, ex.response)

STATEMENT_TIMEOUT_MS == 2000

\* the AsyncSession that get_session yields (db/engine.py:49-52): whether a
\* transaction is in progress, how many it has begun, and the statements it
\* executed, each with the number of the transaction it ran in
NewSession == [in_transaction |-> FALSE, begun |-> 0, executed |-> <<>>]

\* AsyncSession.execute: the statement runs in the transaction in progress,
\* and one is begun when there is none (autobegin)
execute(session, statement) ==
    LET tx == IF session.in_transaction THEN session.begun ELSE session.begun + 1 IN
    [in_transaction |-> TRUE, begun |-> tx,
     executed |-> Append(session.executed, [tx |-> tx, sql |-> statement])]

\* _execute_sql_with_timeout (executor.py:48-63): SET LOCAL, then the statement
execute_sql_with_timeout(session, statement) ==
    execute(execute(session, [kind |-> "SET LOCAL statement_timeout",
                              value |-> STATEMENT_TIMEOUT_MS]),
            statement)
Done(status, detail) == Frame("done", Response(status, detail))

InitExec ==
    /\ policies_check_enabled \in BOOLEAN
    /\ policy_engine = "None"
    /\ gate = NoCall
    /\ RwIdle
    /\ CacheIdle
    /\ PsIdle
    /\ catalogue \in Catalogues
    /\ \E r \in Requests :
          ex = [pc |-> "load_dataset_entry", request |-> r, datasets |-> <<>>,
                unknown |-> {}, pending |-> {},
                tables_map |-> <<>>, gated |-> {}, complete_sql |-> {},
                session |-> NewSession, response |-> Response(0, "")]
    /\ io = <<>>

\* load_dataset_entry (executor.py:106, core/datasets.py)
LoadDatasetEntry ==
    /\ ex.pc = "load_dataset_entry"
    /\ io' = Append(io, Statement("catalog", {ex.request.dataset_id}))
    /\ ex' = [(IF ex.request.dataset_id \in DOMAIN catalogue
               THEN Running("enforce_dataset_access")
               ELSE Done(404, "Dataset not found"))
              EXCEPT !.session =
                 execute(@, Statement("catalog", {ex.request.dataset_id}))]
    /\ UNCHANGED <<catalogue, gateVars, rw, cacheVars, ps>>

\* enforce_dataset_access(entry, user) as execute_query awaits it: the engine
\* call it makes, the module global it leaves, and its outcome
EnforceStep(id, o, next) ==
    /\ io' = IF o.evaluated THEN Append(io, Statement("policy", {id})) ELSE io
    /\ policy_engine' = o.global
    /\ ex' = IF o.status = 200 THEN next ELSE Done(o.status, o.detail)

\* executor.py:107
EnforceEntry ==
    /\ ex.pc = "enforce_dataset_access"
    /\ \E initOk \in BOOLEAN, ev \in EvalOutcomes :
          EnforceStep(ex.request.dataset_id,
                      enforce_dataset_access(catalogue[ex.request.dataset_id].access_level,
                                             ex.request.user, policies_check_enabled,
                                             policy_engine, initOk, ev),
                      Running("validate"))
    /\ UNCHANGED <<catalogue, policies_check_enabled, gate, rw, cacheVars, ps>>

\* executor.py:109-132: the backend checks and the SQL validation
ValidateSql ==
    /\ ex.pc = "validate"
    /\ LET entry == catalogue[ex.request.dataset_id] IN
       ex' = IF entry.backend_type # "postgres"
             THEN Done(400, "Querying only supported for postgres backend")
             ELSE IF entry.backend_config.isNone \/ entry.backend_config.table = NULL
             THEN Done(500, "Dataset missing backend table definition")
             ELSE IF ex.request.parse = "HTTPException"
             THEN Done(400, "SQL validation failed")
             ELSE IF ex.request.parse # NULL
             THEN Done(400, ex.request.parse)
             ELSE Running("resolve_datasets_for_tables")
    /\ UNCHANGED <<catalogue, io, gateVars, rw, cacheVars, ps>>

\* resolve_datasets_for_tables that returns the entries it found and never
\* reports a missing one
resolve_datasets_for_tables_partial(table_names, rows) ==
    LET found == {id \in DOMAIN rows : rows[id].dataset_id \in table_names} IN
    [status |-> 200, detail |-> "", unknown |-> {},
     by_id |-> [id \in {rows[i].dataset_id : i \in found} |->
                  CHOOSE e \in {rows[i] : i \in found} : e.dataset_id = id],
     queries |-> <<Statement("catalog", table_names)>>]

\* resolve_datasets_for_tables (governance.py:295-338); rows are the rows of
\* datasets_entries. The result is the HTTP status it raises (200 for a
\* return), the names its detail lists, the map it returns and the catalogue
\* queries it issues
resolve_datasets_for_tables(table_names, rows) ==
    IF table_names = {}
    THEN [status |-> 400, detail |-> "No datasets referenced in query",
          unknown |-> {}, by_id |-> <<>>, queries |-> <<>>]
    ELSE
    LET entries == {rows[i] : i \in {j \in DOMAIN rows : rows[j].dataset_id \in table_names}}
        by_id == [id \in {e.dataset_id : e \in entries} |->
                     CHOOSE e \in entries : e.dataset_id = id]
        missing == table_names \ DOMAIN by_id
        queries == <<Statement("catalog", table_names)>>
    IN
    IF missing # {}
    THEN [status |-> 400, detail |-> "Query references unknown datasets",
          unknown |-> missing, by_id |-> <<>>, queries |-> queries]
    ELSE [status |-> 200, detail |-> "", unknown |-> {}, by_id |-> by_id,
          queries |-> queries]

\* executor.py:134
ResolveDatasetsForTables ==
    /\ ex.pc = "resolve_datasets_for_tables"
    /\ LET r == resolve_datasets_for_tables(ex.request.tables, catalogue) IN
       /\ io' = io \o r.queries
       /\ ex' = [(IF r.status # 200
                 THEN [Done(r.status, r.detail) EXCEPT !.unknown = r.unknown]
                 ELSE [Running("gate_tables") EXCEPT !.datasets = r.by_id,
                                                    !.pending = DOMAIN r.by_id])
                EXCEPT !.session = IF r.queries = <<>> THEN @
                                   ELSE execute(@, r.queries[1])]
    /\ UNCHANGED <<catalogue, gateVars, rw, cacheVars, ps>>

\* one iteration of the loop over datasets.items() (executor.py:136-152); the
\* order of the items is the order of the rows the catalogue query returned
GateTable ==
    /\ ex.pc = "gate_tables"
    /\ \E ref_table \in ex.pending :
          LET ds == ex.datasets[ref_table]
              rest == [Running("gate_tables") EXCEPT !.pending = @ \ {ref_table},
                                                    !.gated = @ \cup {ref_table}]
              mapped == [t \in DOMAIN ex.tables_map \cup {ref_table} |->
                            IF t = ref_table THEN ds.backend_config.table
                            ELSE ex.tables_map[t]]
              next == IF ds.backend_config.isNone \/ ds.backend_config.table = NULL
                      THEN rest
                      ELSE [rest EXCEPT !.tables_map = mapped]
          IN
          IF ~ds.expose
          THEN /\ ex' = Done(403, "Dataset not available")
               /\ UNCHANGED <<io, policy_engine>>
          ELSE \E initOk \in BOOLEAN, ev \in EvalOutcomes :
                  EnforceStep(ref_table,
                              enforce_dataset_access(ds.access_level, ex.request.user,
                                                     policies_check_enabled,
                                                     policy_engine, initOk, ev),
                              next)
    /\ UNCHANGED <<catalogue, policies_check_enabled, gate, rw, cacheVars, ps>>

\* the statements built while datasets of the loop are still to be gated
BuildStatements_early ==
    /\ ex.pc = "gate_tables"
    /\ ex' = [Running("count") EXCEPT
                 !.complete_sql = to_sql(ex.request.tables, ex.tables_map)]
    /\ UNCHANGED <<catalogue, io, gateVars, rw, cacheVars, ps>>

\* executor.py:155-175: the substitution of the physical tables and the two
\* statements built around its result
BuildStatements ==
    /\ ex.pc = "gate_tables"
    /\ ex.pending = {}
    /\ ex' = [Running("count") EXCEPT
                 !.complete_sql = to_sql(ex.request.tables, ex.tables_map)]
    /\ UNCHANGED <<catalogue, io, gateVars, rw, cacheVars, ps>>

\* what the database does with a statement
DbOutcomes == {"ok", "DBAPIError", "RuntimeError"}

\* _execute_sql_with_timeout and the handlers around its call: the response
\* a failure ends with
DbFailure(outcome, detail) ==
    IF outcome = "DBAPIError"
    THEN Response(400, "Database query failed")
    ELSE Response(500, detail)

\* executor.py:180-189
ExecuteCount ==
    /\ ex.pc = "count"
    /\ io' = Append(io, Statement("count", ex.complete_sql))
    /\ \E outcome \in DbOutcomes :
          ex' = [(IF outcome = "ok" THEN Running("data")
                  ELSE Frame("done", DbFailure(outcome, "Query failed")))
                 EXCEPT !.session =
                    execute_sql_with_timeout(@, Statement("count", ex.complete_sql))]
    /\ UNCHANGED <<catalogue, gateVars, rw, cacheVars, ps>>

\* executor.py:194-230
ExecuteData ==
    /\ ex.pc = "data"
    /\ io' = Append(io, Statement("data", ex.complete_sql))
    /\ \E outcome \in DbOutcomes :
          ex' = [(IF outcome = "ok" THEN Done(200, "")
                  ELSE Frame("done", DbFailure(outcome, "Query execution failed")))
                 EXCEPT !.session =
                    execute_sql_with_timeout(@, Statement("data", ex.complete_sql))]
    /\ UNCHANGED <<catalogue, gateVars, rw, cacheVars, ps>>

Next ==
    \/ LoadDatasetEntry
    \/ EnforceEntry
    \/ ValidateSql
    \/ ResolveDatasetsForTables
    \/ GateTable
    \/ BuildStatements
    \/ ExecuteCount
    \/ ExecuteData

Spec == InitExec /\ [][Next]_vars

------------------------------------------------------------------------------
(* SpecPage: the pagination of execute_query (executor.py:157-230) *)

DEFAULT_LIMIT == 100
MAX_LIMIT == 10000

\* the rows of the rewritten statement, at most
MaxRows == 3

Limits == {-5, -1, 0, 1, 2, 50, 99, 100, 101, 9999, 10000, 10001, 20000}
Offsets == {-3, -1, 0, 1, 2, 5}

\* min(max(limit, 100), 10000)
clamp_limit_floor(limit) == Min(Max(limit, DEFAULT_LIMIT), MAX_LIMIT)

\* _clamp_limit without the cap
clamp_limit_uncapped(limit) == IF limit <= 0 THEN DEFAULT_LIMIT ELSE limit

\* _clamp_limit
clamp_limit(limit) ==
    IF limit <= 0 THEN DEFAULT_LIMIT ELSE Min(limit, MAX_LIMIT)

\* what the database returns for SELECT * FROM (...) AS q LIMIT :limit
\* OFFSET :offset when the subquery has total rows: their row numbers
PgPage(total, limit, offset) ==
    [i \in 1..Max(0, Min(limit, total - offset)) |-> offset + i]

\* DatasetQueryResult(...) (executor.py:223-230)
DatasetQueryResult(dataset_id, items, offset, limit, total) ==
    [dataset_id |-> dataset_id, items |-> items, offset |-> offset,
     limit |-> limit, count |-> Len(items), total |-> total]

InitPage ==
    /\ GateIdle
    /\ RwIdle
    /\ CacheIdle
    /\ PsIdle
    /\ catalogue = <<>>
    /\ io = <<>>
    /\ \E limit \in Limits, offset \in Offsets, total \in 0..MaxRows :
          ex = [pc |-> "clamp", request |-> [limit |-> limit, offset |-> offset],
                limit |-> limit, offset |-> offset, total |-> total]

\* executor.py:160-161
ClampPagination ==
    /\ ex.pc = "clamp"
    /\ ex' = [ex EXCEPT !.pc = "data", !.limit = clamp_limit(ex.limit),
                        !.offset = Max(ex.offset, 0)]
    /\ UNCHANGED <<catalogue, io, gateVars, rw, cacheVars, ps>>

\* executor.py:194-230: the data statement with its parameters and the result
FetchPage ==
    /\ ex.pc = "data"
    /\ io' = Append(io, [kind |-> "data",
                         params |-> [limit |-> ex.limit, offset |-> ex.offset]])
    /\ ex' = [pc |-> "done", request |-> ex.request, limit |-> ex.limit,
              offset |-> ex.offset, total |-> ex.total,
              result |-> DatasetQueryResult("ds.a",
                            PgPage(ex.total, ex.limit, ex.offset),
                            ex.offset, ex.limit, ex.total)]
    /\ UNCHANGED <<catalogue, gateVars, rw, cacheVars, ps>>

NextPage == ClampPagination \/ FetchPage

SpecPage == InitPage /\ [][NextPage]_vars

------------------------------------------------------------------------------
(* SpecSnapshot: the count statement and the data statement of execute_query
   (executor.py:177-230) while other sessions commit inserts and deletes.
   The engine is created without an isolation level (db/engine.py:26-30), so
   the session runs at PostgreSQL's READ COMMITTED: each statement sees the
   rows committed when it starts. *)

\* commits of other sessions during one request, at most
MaxWrites == 2

\* ex after executor.py:160-161; io is the data table: the number of rows of
\* complete_sql that are committed, and the commits made so far
InitSnapshot ==
    /\ GateIdle
    /\ RwIdle
    /\ CacheIdle
    /\ PsIdle
    /\ catalogue = <<>>
    /\ \E rows \in 0..MaxRows : io = [committed |-> rows, writes |-> 0]
    /\ \E limit \in {-1, 1, 2, 100}, offset \in {-1, 0, 1, 2} :
          ex = [pc |-> "count", limit |-> clamp_limit(limit),
                offset |-> Max(offset, 0)]

\* another session commits an insert or a delete of rows that complete_sql
\* selects
OtherSessionCommits ==
    /\ ex.pc \in {"count", "data"}
    /\ io.writes < MaxWrites
    /\ \E rows \in (0..MaxRows) \ {io.committed} :
          io' = [committed |-> rows, writes |-> io.writes + 1]
    /\ UNCHANGED <<ex, catalogue, gateVars, rw, cacheVars, ps>>

\* executor.py:180-184: SELECT COUNT(*) FROM (complete_sql) AS q
CountStatement ==
    /\ ex.pc = "count"
    /\ ex' = [pc |-> "data", limit |-> ex.limit, offset |-> ex.offset,
              total |-> io.committed, count_saw |-> io.committed]
    /\ UNCHANGED <<io, catalogue, gateVars, rw, cacheVars, ps>>

\* executor.py:194-230: the data statement and the result made of its rows
DataStatement ==
    /\ ex.pc = "data"
    /\ ex' = [pc |-> "done", limit |-> ex.limit, offset |-> ex.offset,
              total |-> ex.total, count_saw |-> ex.count_saw,
              data_saw |-> io.committed,
              result |-> DatasetQueryResult("ds.a",
                            PgPage(io.committed, ex.limit, ex.offset),
                            ex.offset, ex.limit, ex.total)]
    /\ UNCHANGED <<io, catalogue, gateVars, rw, cacheVars, ps>>

NextSnapshot == OtherSessionCommits \/ CountStatement \/ DataStatement

SpecSnapshot == InitSnapshot /\ [][NextSnapshot]_vars

------------------------------------------------------------------------------
(* SpecAuth: from the bearer credentials to the AuthenticatedUser
   (security/auth.py), the subject of the policy input
   (security/governance.py) and the row-filter handlers that forward the
   caller's token (row_filters/handlers) *)

BearerTokens == {"token-1", "token-2"}
NoCredentials == "<no credentials>"

\* dict.get(key, default)
get(dict, key, default) == IF key \in DOMAIN dict THEN dict[key] ELSE default

\* str.split() of the scope strings of the model
split(str) ==
    CASE str = "" -> <<>>
      [] str = "read" -> <<"read">>
      [] str = "read write" -> <<"read", "write">>

ClaimKeys == {"scope", "scopes", "groups"}

AllClaims ==
    [scope : {"", "read", "read write"}, scopes : {<<"read">>},
     groups : {<<>>, <<"analysts">>}]

\* the claims of a validated token: each of the three claims may be absent
JwtClaims == {[k \in K |-> c[k]] : c \in AllClaims, K \in SUBSET ClaimKeys}

\* what JwtUser.from_token makes of a token: a ValueError or a JwtUser
JwtUsers ==
    {[error |-> "ValueError"]} \cup
    {[error |-> NULL, sub |-> sub, claims |-> c] :
        sub \in {"alice"}, c \in JwtClaims}

NoneUser == [isNone |-> TRUE]

\* _normalize_user (auth.py:86-126)
normalize_user(jwt_user) ==
    [isNone |-> FALSE,
     sub |-> jwt_user.sub,
     groups |-> get(jwt_user.claims, "groups", <<>>),
     scopes |-> split(get(jwt_user.claims, "scope", "")),
     claims |-> jwt_user.claims,
     token |-> NULL]

\* _is_service_account
is_service_account(claims) == "scopes" \in DOMAIN claims

\* _build_subject_from_user
build_subject_from_user(user) ==
    IF user.isNone
    THEN [id |-> "anonymous", type |-> "anonymous"]
    ELSE [id |-> user.sub,
          type |-> IF is_service_account(user.claims) THEN "service" ELSE "user",
          groups |-> get(user.claims, "groups", <<>>),
          scopes |-> split(get(user.claims, "scope", "")),
          claims |-> user.claims]

InitAuth ==
    /\ GateIdle
    /\ RwIdle
    /\ CacheIdle
    /\ PsIdle
    /\ catalogue = <<>>
    /\ io = <<>>
    /\ \E credentials \in BearerTokens \cup {NoCredentials}, jwt_user \in JwtUsers :
          /\ credentials = NoCredentials => jwt_user.error # NULL
          /\ ex = [pc |-> "get_optional_user", credentials |-> credentials,
                   jwt_user |-> jwt_user, user |-> NoneUser,
                   subject |-> build_subject_from_user(NoneUser),
                   response |-> Response(0, "")]

\* get_optional_user (auth.py:134-157)
GetOptionalUser ==
    /\ ex.pc = "get_optional_user"
    /\ ex' = IF ex.credentials = NoCredentials
             THEN [ex EXCEPT !.pc = "build_subject"]
             ELSE IF ex.jwt_user.error # NULL
             THEN [ex EXCEPT !.pc = "done", !.response = Response(401, "Invalid token")]
             ELSE [ex EXCEPT !.pc = "build_subject",
                             !.user = normalize_user(ex.jwt_user)]
    /\ UNCHANGED <<catalogue, io, gateVars, rw, cacheVars, ps>>

\* governance.py:204
BuildSubject ==
    /\ ex.pc = "build_subject"
    /\ ex' = [ex EXCEPT !.pc = IF ex.user.isNone THEN "done" ELSE "row_filter",
                        !.subject = build_subject_from_user(ex.user)]
    /\ UNCHANGED <<catalogue, io, gateVars, rw, cacheVars, ps>>

\* HttpInListHandler.resolve (http_in_list.py:81-99): the authorization
\* header of the request it sends
HttpInListResolve ==
    /\ ex.pc = "row_filter"
    /\ \E forward_token \in BOOLEAN :
          io' = Append(io, [kind |-> "http_in_list", forward_token |-> forward_token,
                            authorization |-> IF forward_token THEN ex.user.token
                                              ELSE "<no header>"])
    /\ ex' = [ex EXCEPT !.pc = "done"]
    /\ UNCHANGED <<catalogue, gateVars, rw, cacheVars, ps>>

\* RecRegistryHandler.resolve (rec_registry.py:35-46): the token it hands to
\* the registry client
RecRegistryResolve ==
    /\ ex.pc = "row_filter"
    /\ io' = Append(io, [kind |-> "rec_registry", forward_token |-> TRUE,
                         authorization |-> ex.user.token])
    /\ ex' = [ex EXCEPT !.pc = "done"]
    /\ UNCHANGED <<catalogue, gateVars, rw, cacheVars, ps>>

NextAuth ==
    \/ GetOptionalUser
    \/ BuildSubject
    \/ HttpInListResolve
    \/ RecRegistryResolve

SpecAuth == InitAuth /\ [][NextAuth]_vars

------------------------------------------------------------------------------
(* SpecRegistry: get_row_filter_registry, the plugin modules it imports and
   RowFilterRegistry.register (row_filters/registry.py) *)

\* the handlers registered as built-ins, by name
BuiltinHandlers ==
    [n \in {"direct_user_match", "http_in_list", "table_pointer", "rec_registry"}
        |-> <<"builtin", n>>]

PluginModules == {"m1", "m2"}
PluginHandlerNames == {"p1", "p2", "http_in_list"}
LateHandlerNames == {"p1", "late", "table_pointer"}

\* settings.row_filters_modules: the module names, each of which registers
\* one handler through get_row_filter_registry().register when imported
ModuleLists ==
    {<<>>} \cup {<<m>> : m \in PluginModules}
          \cup {pair \in PluginModules \X PluginModules : pair[1] # pair[2]}

\* the interpreter state that start-up works on: the global _registry (0 for
\* None, else the position of the object in the heap), the RowFilterRegistry
\* objects created so far (their handlers dicts), sys.modules, whether an
\* exception is propagating, and the value returned
Interpreter ==
    [registry |-> 0, heap |-> <<>>, sys_modules |-> {}, raised |-> FALSE, ret |-> 0]

\* RowFilterRegistry.register on the registry at position r of the heap
register(state, r, name, handler) ==
    IF name \in DOMAIN state.heap[r]
    THEN [state EXCEPT !.raised = TRUE]
    ELSE [state EXCEPT !.heap[r] =
             [n \in DOMAIN @ \cup {name} |-> IF n = name THEN handler ELSE @[n]]]

RECURSIVE get_row_filter_registry(_, _)
RECURSIVE load_modules(_, _, _)
RECURSIVE import_module(_, _, _)

\* importlib.import_module(m) of a plugin module: a module already in
\* sys.modules (being imported included) is not executed again; the body of
\* the module is get_row_filter_registry().register(Handler()); a module
\* whose body raises is removed from sys.modules
import_module(config, state, m) ==
    IF m \in state.sys_modules THEN state
    ELSE LET entered == [state EXCEPT !.sys_modules = @ \cup {m}]
             got == get_row_filter_registry(config, entered)
             done == IF got.raised THEN got
                     ELSE register(got, got.ret, config.plugin_handler[m], <<m, config.plugin_handler[m]>>)
         IN IF done.raised THEN [done EXCEPT !.sys_modules = @ \ {m}] ELSE done

\* _load_modules, from the i-th configured module on
load_modules(config, state, i) ==
    IF i > Len(config.modules) THEN state
    ELSE LET imported == import_module(config, state, config.modules[i]) IN
         IF imported.raised THEN imported
         ELSE load_modules(config, imported, i + 1)

\* get_row_filter_registry
get_row_filter_registry(config, state) ==
    IF state.registry # 0 THEN [state EXCEPT !.ret = state.registry]
    ELSE LET created == [state EXCEPT !.heap = Append(@, BuiltinHandlers)]
             reg == Len(created.heap)
             loaded == load_modules(config, created, 1)
         IN IF loaded.raised THEN loaded
            ELSE [loaded EXCEPT !.registry = reg, !.ret = reg]

InitRegistry ==
    /\ GateIdle
    /\ RwIdle
    /\ CacheIdle
    /\ PsIdle
    /\ catalogue = <<>>
    /\ io = <<>>
    /\ \E modules \in ModuleLists, plugin_handler \in [PluginModules -> PluginHandlerNames] :
          ex = [pc |-> "startup",
                config |-> [modules |-> modules, plugin_handler |-> plugin_handler],
                state |-> Interpreter]

\* the first call of get_row_filter_registry
Startup ==
    /\ ex.pc = "startup"
    /\ LET after == get_row_filter_registry(ex.config, ex.state) IN
       /\ ex' = [ex EXCEPT !.pc = IF after.raised THEN "failed" ELSE "ready",
                           !.state = [after EXCEPT !.raised = FALSE]]
       /\ io' = Append(io, [call |-> "get_row_filter_registry",
                            raised |-> after.raised, ret |-> after.ret])
    /\ UNCHANGED <<catalogue, gateVars, rw, cacheVars, ps>>

\* a later call of get_row_filter_registry
GetRegistry ==
    /\ ex.pc = "ready"
    /\ Len(io) < 3
    /\ LET after == get_row_filter_registry(ex.config, ex.state) IN
       /\ ex' = [ex EXCEPT !.state = after]
       /\ io' = Append(io, [call |-> "get_row_filter_registry",
                            raised |-> after.raised, ret |-> after.ret])
    /\ UNCHANGED <<catalogue, gateVars, rw, cacheVars, ps>>

\* get_row_filter_registry().register(handler) after start-up
RegisterLate ==
    /\ ex.pc = "ready"
    /\ Len(io) < 3
    /\ \E name \in LateHandlerNames :
          LET got == get_row_filter_registry(ex.config, ex.state)
              after == register(got, got.ret, name, <<"late", name>>)
          IN /\ ex' = [ex EXCEPT !.state = [after EXCEPT !.raised = FALSE]]
             /\ io' = Append(io, [call |-> "register", raised |-> after.raised,
                                  ret |-> got.ret])
    /\ UNCHANGED <<catalogue, gateVars, rw, cacheVars, ps>>

NextRegistry == Startup \/ GetRegistry \/ RegisterLate

SpecRegistry == InitRegistry /\ [][NextRegistry]_vars

------------------------------------------------------------------------------
(* SpecHttp: the plan HttpInListHandler.resolve makes of the response
   (handlers/http_in_list.py:75-154) *)

DEFAULT_MAX_ITEMS == 2000

\* the response items have at most this length
MaxItems == 3

\* a JSON value of the response: null, a string, a number or a boolean
JsonValues ==
    {[t |-> "null", v |-> "null"], [t |-> "str", v |-> "a"],
     [t |-> "int", v |-> "7"], [t |-> "bool", v |-> "true"]}

\* what _extract_path returns: None when the path is missing, a list, or
\* another JSON value
Extracted ==
    {[kind |-> "none"]}
    \cup {[kind |-> "scalar", item |-> v] : v \in JsonValues \ {[t |-> "null", v |-> "null"]}}
    \cup {[kind |-> "list", items |-> l] :
            l \in UNION {[1..n -> JsonValues] : n \in 0..MaxItems}}

\* args.get("max_items"): absent, or the configured integer
NoArg == [absent |-> TRUE]
MaxItemsArgs == {NoArg} \cup {[absent |-> FALSE, v |-> v] : v \in {-1, 0, 1, 2, 5}}

\* int(args.get("max_items") or 2000)
max_items_of(arg) ==
    IF arg.absent \/ arg.v = 0 THEN DEFAULT_MAX_ITEMS ELSE arg.v

\* flat[:stop] of a Python list
slice_to(list, stop) ==
    IF stop >= 0 THEN SubSeq(list, 1, Min(stop, Len(list)))
    ELSE SubSeq(list, 1, Max(0, Len(list) + stop))

\* the literal of one item (http_in_list.py:136-143)
literal_of(item) ==
    CASE item.t = "bool" -> [k |-> "bool", v |-> item.v]
      [] item.t = "int" -> [k |-> "literal", is_string |-> FALSE, value |-> item.v]
      [] OTHER -> [k |-> "literal", is_string |-> TRUE, value |-> item.v]

\* HttpInListHandler.resolve from the extracted items on
http_in_list_plan(table, column, items, max_items_arg, empty_means_deny) ==
    LET max_items == max_items_of(max_items_arg)
        items_list == CASE items.kind = "none" -> <<>>
                        [] items.kind = "list" -> items.items
                        [] OTHER -> <<items.item>>
        flat == SelectSeq(items_list, LAMBDA it : it.t # "null")
        capped == IF Len(flat) > max_items THEN slice_to(flat, max_items) ELSE flat
    IN
    IF flat = <<>>
    THEN IF empty_means_deny
         THEN [table |-> table, kind |-> "deny", predicate_template |-> NoWhere]
         ELSE [table |-> table, kind |-> "predicate",
               predicate_template |-> [k |-> "bool", v |-> "true"]]
    ELSE [table |-> table, kind |-> "predicate",
          predicate_template |->
             [k |-> "in_list", this |-> Column(column, NULL),
              expressions |-> [i \in 1..Len(capped) |-> literal_of(capped[i])]]]

InitHttp ==
    /\ GateIdle
    /\ RwIdle
    /\ CacheIdle
    /\ PsIdle
    /\ catalogue = <<>>
    /\ io = <<>>
    /\ \E items \in Extracted, max_items \in MaxItemsArgs, empty_means_deny \in BOOLEAN :
          ex = [pc |-> "response", items |-> items, max_items |-> max_items,
                empty_means_deny |-> empty_means_deny]

HttpInListPlan ==
    /\ ex.pc = "response"
    /\ ex' = [pc |-> "done", items |-> ex.items, max_items |-> ex.max_items,
              empty_means_deny |-> ex.empty_means_deny,
              plan |-> http_in_list_plan("meters", "sensor_id", ex.items,
                                         ex.max_items, ex.empty_means_deny)]
    /\ UNCHANGED <<catalogue, io, gateVars, rw, cacheVars, ps>>

NextHttp == HttpInListPlan

SpecHttp == InitHttp /\ [][NextHttp]_vars

------------------------------------------------------------------------------
(* Claims about the access gate, checked under SpecGate *)

GatedLevel == Lower(gate.access_level) \in {"internal", "restricted"}

\* the engine is initialised when the call reaches the evaluation
EngineInitialised == gate.engineBefore = "engine" \/ gate.initOk

PolicyCase ==
    /\ gate.called
    /\ GatedLevel
    /\ gate.user # NoUser
    /\ policies_check_enabled

\* C1: with an internal or restricted dataset, a non-null user, policy
\* checking enabled and the engine initialised, a decision that is not
\* allowed ends the call with 403, whose detail is the engine's reason when
\* one is present and 'Access denied by policy' otherwise.
C1_DenyIs403 ==
    (PolicyCase /\ EngineInitialised
        /\ gate.ev.kind = "decision" /\ ~gate.ev.allowed)
    => /\ gate.status = 403
       /\ gate.detail = IF Truthy(gate.ev.reason) THEN gate.ev.reason
                        ELSE "Access denied by policy"

\* C5: the access-level matrix. open succeeds for anonymous and authenticated
\* callers without touching the policy engine; internal and restricted give
\* 401 'Authentication required for this dataset' to a null user without
\* touching the policy engine; a non-null user is granted access only after an
\* allowing policy decision, or when policy checking is disabled.
C5_AccessLevelMatrix ==
    gate.called =>
        /\ gate.access_level = "open" =>
              /\ gate.status = 200
              /\ ~gate.evaluated
              /\ policy_engine = gate.engineBefore
        /\ (gate.access_level \in {"internal", "restricted"} /\ gate.user = NoUser) =>
              /\ gate.status = 401
              /\ gate.detail = "Authentication required for this dataset"
              /\ ~gate.evaluated
              /\ policy_engine = gate.engineBefore
        /\ (gate.access_level \in {"internal", "restricted"} /\ gate.user # NoUser
                /\ gate.status = 200) =>
              \/ ~policies_check_enabled
              \/ gate.evaluated /\ gate.ev.kind = "decision" /\ gate.ev.allowed

C5_Witness ==
    /\ gate.called
    /\ gate.access_level = "restricted"
    /\ gate.user # NoUser
    /\ policies_check_enabled
    /\ gate.status = 200
    /\ gate.evaluated

\* C6: a dataset whose access_level is missing (null or empty) or is not one
\* of open, internal, restricted ends the call with 500 and is never served.
C6_MissingLevelIs500 ==
    (gate.called /\ (gate.access_level \in {NULL, ""}
                        \/ Lower(gate.access_level) \notin AccessLevel))
    => gate.status = 500

EngineFailure ==
    \/ ~EngineInitialised
    \/ gate.ev.kind \in {"PolicyEngineError", "RuntimeError"}

\* C7: with policy checking enabled, an internal or restricted dataset and an
\* authenticated user, an engine that cannot be initialised or whose
\* evaluation fails ends the call with 503 and never grants access; and a 503
\* is produced only in these engine-failure cases.
C7_Only503OnEngineFailure ==
    /\ (PolicyCase /\ EngineFailure) => gate.status = 503
    /\ (gate.called /\ gate.status = 503) => (PolicyCase /\ EngineFailure)

------------------------------------------------------------------------------
(* Claims about the rewriter, checked under SpecRewrite *)

\* the comparisons that occur in a WHERE
LeavesOf(where) ==
    IF where.k = "none" THEN {}
    ELSE {sql(where)[i].leaf :
            i \in {j \in 1..Len(sql(where)) : sql(where)[j].sym = "leaf"}}

\* the rows a SELECT can meet, each given by the comparisons that hold for it
RowsOf(where) == SUBSET LeavesOf(where)

OnlyPredicatePlans ==
    \A i \in 1..Len(rw.plans) : rw.plans[i].kind = "predicate"

\* C2: given predicate plans only, for every SELECT and every table occurrence
\* of its FROM whose name is a plan's table, the plan's predicate qualified
\* with the occurrence's alias (or the bare table name) holds for every row
\* the SELECT returns in the executed SQL, whatever the original WHERE was.
C2_PredicateRestrictsEveryRow ==
    (rw.state = "rewritten" /\ OnlyPredicatePlans) =>
        \A s \in 1..Len(rw.out) :
        \A ti \in 1..Len(rw.ast[s].from) :
        \A pi \in 1..Len(rw.plans) :
            LET t == rw.ast[s].from[ti]
                p == rw.plans[pi]
                qualifier == IF t.alias # NULL THEN t.alias ELSE t.this
                expected == <<qualifier, p.predicate_template.l.name,
                              p.predicate_template.r.value>>
            IN  p.table = t.this =>
                    \A row \in SUBSET (LeavesOf(rw.out[s].where) \cup {expected}) :
                        RowPasses(rw.out[s].where, row) => expected \in row

\* C3: if any plan has kind deny, the rewritten query returns no row, whatever
\* the original WHERE was.
C3_DenyReturnsNoRows ==
    (rw.state = "rewritten" /\ \E i \in 1..Len(rw.plans) : rw.plans[i].kind = "deny") =>
        \A row \in RowsOf(rw.out[1].where) : ~RowPasses(rw.out[1].where, row)

------------------------------------------------------------------------------
(* Claims about the registry cache, checked under SpecCache *)

\* until when a plan resolved by an invocation made at time t stays cached
\* at least: the configured TTL, shortened by the token's exp claim
CachedUntil(user, t) ==
    IF ~HasExp(user) THEN t + row_filters_cache_ttl * TicksPerSecond
    ELSE Min(ExpClaim(user) * TicksPerSecond,
             t + row_filters_cache_ttl * TicksPerSecond)

\* C9: for identical (handler, table, sub, args), across all requests of the
\* process, concurrent ones included, handler.resolve is invoked at most once
\* within the cache TTL.
C9_ResolveOncePerTtl ==
    \A i, j \in 1..Len(resolveLog) :
        (i < j /\ resolveLog[i].inputs = resolveLog[j].inputs)
        => resolveLog[j].t >= CachedUntil(resolveLog[i].inputs.user, resolveLog[i].t)

\* the token's remaining lifetime at time t, in ticks
Remaining(user, t) == ExpClaim(user) * TicksPerSecond - t

\* t + min(r, configured default TTL), t + default when the token has no exp
ReturnedBefore(user, t) ==
    IF ~HasExp(user) THEN t + row_filters_cache_ttl * TicksPerSecond
    ELSE t + Min(Remaining(user, t), row_filters_cache_ttl * TicksPerSecond)

\* C21: a plan stored at time t for a user whose token has remaining lifetime
\* r is returned from the cache only at times strictly before
\* t + min(r, configured default TTL) (t + default when the token has no exp
\* claim); when r <= 0 the plan is not cached at all; the cache never returns
\* an entry at or after its expiry time.
C21_ReturnedOnlyWithinEffectiveTtl ==
    /\ [](\A c \in CallIds :
             calls[c].pc = "done" /\ calls[c].cached =>
                calls[c].t < ReturnedBefore(calls[c].plan.resolved_for.user,
                                            calls[c].plan.at))
    /\ [](\A i \in DOMAIN store :
             LET user == store[i].value.resolved_for.user IN
             HasExp(user) => Remaining(user, store[i].value.at) > 0)
    /\ [][\A c \in CallIds :
             calls[c].pc = "idle" /\ calls'[c].pc = "done" =>
                \E i \in DOMAIN store :
                    /\ store[i].key = calls'[c].key
                    /\ store[i].value = calls'[c].plan
                    /\ now < store[i].expires_at]_vars

\* the parts of C21 that the code keeps: nothing is stored for a token whose
\* whole seconds are used up, and no entry is returned at or after its
\* expires_at
C21_KeptParts ==
    /\ [](\A i \in DOMAIN store :
             LET user == store[i].value.resolved_for.user IN
             HasExp(user) => Remaining(user, store[i].value.at) > 0)
    /\ [][\A c \in CallIds :
             calls[c].pc = "idle" /\ calls'[c].pc = "done" =>
                \E i \in DOMAIN store :
                    /\ store[i].key = calls'[c].key
                    /\ store[i].value = calls'[c].plan
                    /\ now < store[i].expires_at]_vars

\* a cached plan returned when the token it was resolved for has expired
ReturnedAfterTokenExpiry ==
    \E c \in CallIds :
        /\ calls[c].pc = "done"
        /\ calls[c].cached
        /\ HasExp(calls[c].inputs.user)
        /\ calls[c].t >= ExpClaim(calls[c].inputs.user) * TicksPerSecond

Entries(st) == {st[i] : i \in DOMAIN st}
Others(entries, key) == {e \in entries : e.key # key}
Unexpired(st, t) == {e \in Entries(st) : ~Expired(e, t)}

\* a step in which call c returns from handler.resolve and calls cache.set
\* with a positive ttl
SetStep(c) ==
    /\ calls[c].pc = "awaiting"
    /\ calls'[c].pc = "done"
    /\ effective_ttl(calls[c].inputs.user, now) > 0

\* C22: the number of stored entries never exceeds maxsize; a set that finds
\* the cache full first removes every expired entry, and it removes an
\* unexpired entry only if the cache is still full after that, and then
\* exactly one (which may be the entry of the key being set, stored again
\* by the same call); a set that finds room removes nothing.
C22_BoundedWithExpiredFirstEviction ==
    /\ [](Len(store) <= row_filters_cache_maxsize)
    /\ [](\A i, j \in DOMAIN store : store[i].key = store[j].key => i = j)
    /\ [][\A c \in CallIds : SetStep(c) =>
            LET key == calls[c].key
                live == Unexpired(store, now)
                victims == Others(live, key) \ Others(Entries(store'), key)
            IN
            /\ \E e \in Entries(store') :
                  e.key = key /\ e.value = calls'[c].plan
            /\ Others(Entries(store'), key) \subseteq Entries(store)
            /\ Len(store') = Cardinality(Entries(store'))
            /\ IF Len(store) < row_filters_cache_maxsize
               THEN Others(Entries(store'), key) = Others(Entries(store), key)
               ELSE /\ Others(Entries(store'), key) \subseteq live
                    /\ IF Cardinality(live) < row_filters_cache_maxsize
                       THEN victims = {}
                       ELSE \/ Cardinality(victims) = 1
                            \/ /\ victims = {}
                               /\ \E e \in live : e.key = key]_vars

\* a set found the cache full of unexpired entries and dropped one of them
C22_Witness ==
    /\ now = 0
    /\ Len(resolveLog) = 3
    /\ Len(store) = row_filters_cache_maxsize
    /\ \A c \in CallIds : calls[c].pc # "awaiting"
    /\ \A i, j \in DOMAIN resolveLog :
          resolveLog[i].inputs = resolveLog[j].inputs => i = j
    /\ \E i \in DOMAIN resolveLog :
          \A k \in DOMAIN store : store[k].value.resolved_for # resolveLog[i].inputs

\* a set found the cache full, and an expired entry left with it
C22_WitnessExpired ==
    /\ Len(resolveLog) = 3
    /\ Len(store) = 1
    /\ store[1].value.at > 0
    /\ \A c \in CallIds : calls[c].pc # "awaiting"
    /\ \A i, j \in DOMAIN resolveLog :
          resolveLog[i].inputs = resolveLog[j].inputs => i = j

------------------------------------------------------------------------------
(* Claims about the validator, checked under SpecParse *)

\* C10: for every input, parse_sql_query returns a parsed result or raises an
\* HTTPException with status 400; no other exception escapes it.
C10_Only400Escapes ==
    ps.state = "parsed" =>
        \/ ps.exc = NULL
        \/ ps.exc = "HTTPException" /\ ps.status = 400

\* a left-to-right scan of s from position i: inside a literal '' is an
\* escaped quote and any other quote closes the literal; the result tells
\* whether a ';' was met outside the literals and whether the scan ends
\* inside a literal that was never closed
RECURSIVE QuoteScan(_, _, _, _)
QuoteScan(s, i, inLiteral, semicolon) ==
    IF i > Len(s) THEN [semicolon |-> semicolon, unterminated |-> inLiteral]
    ELSE IF ~inLiteral
    THEN QuoteScan(s, i + 1, s[i] = "'", semicolon \/ s[i] = ";")
    ELSE IF s[i] = "'" /\ i < Len(s) /\ s[i + 1] = "'"
    THEN QuoteScan(s, i + 2, TRUE, semicolon)
    ELSE QuoteScan(s, i + 1, s[i] # "'", semicolon)

SemicolonOutsideLiterals(s) == QuoteScan(s, 1, FALSE, FALSE).semicolon
LiteralsTerminated(s) == ~QuoteScan(s, 1, FALSE, FALSE).unterminated

\* the guard rejects the query (400) before sqlglot.parse_one is called
RejectedBySemicolonGuard ==
    /\ ps.exc = "HTTPException"
    /\ ps.status = 400
    /\ ps.detail = "Semicolons are not allowed"
    /\ ~ps.parse_one_called

RECURSIVE StmtVectors(_), ExprVectors(_)
StmtVectors(stmt) ==
    IF stmt.type = "Union" THEN {"union"}
    ELSE IF stmt.type # "Select" THEN {}
    ELSE UNION {StmtVectors(stmt.with_[i].this) : i \in 1..Len(stmt.with_)}
         \cup UNION {ExprVectors(stmt.expressions[i]) : i \in 1..Len(stmt.expressions)}
         \cup (IF stmt.where.k = "none" THEN {} ELSE ExprVectors(stmt.where))
         \cup (IF HasArg(stmt, "comments") THEN {"comment"} ELSE {})
         \cup (IF HasArg(stmt, "group")
               THEN UNION {ExprVectors(stmt.group[i]) : i \in 1..Len(stmt.group)}
               ELSE {})
ExprVectors(e) ==
    CASE e.k = "eq" ->
            (IF e.l = e.r THEN {"tautology"} ELSE {})
            \cup ExprVectors(e.l) \cup ExprVectors(e.r)
      [] e.k \in {"and", "or", "is"} -> ExprVectors(e.l) \cup ExprVectors(e.r)
      [] e.k = "paren" -> ExprVectors(e.e)
      [] e.k = "subquery" -> StmtVectors(e.this)
      [] e.k = "func" ->
            (IF e.name = "exists" THEN {"exists"}
             ELSE IF e.name \notin ALLOWED_FUNCTIONS THEN {"function"} ELSE {})
            \cup UNION {ExprVectors(e.args[i]) : i \in 1..Len(e.args)}
      [] OTHER -> {}

\* C12: parse_sql_query rejects every query that contains, at any depth, a
\* tautological equality with identical sides, a UNION, an EXISTS subquery, a
\* call of a function outside the allow-list, or an SQL comment.
C12_InjectionVectorsRejected ==
    (/\ ps.state = "parsed"
     /\ ps.parse_one_called
     /\ ps.parsed.type \notin {"ParseError", "TokenError"}
     /\ StmtVectors(ps.parsed) # {})
    => ps.exc # NULL

\* the Select nodes of a statement and the CTE aliases declared in it, at
\* any depth
RECURSIVE SelectsIn(_), SelectsInExpr(_)
SelectsIn(stmt) ==
    IF stmt.type # "Select" THEN {}
    ELSE {stmt}
         \cup UNION {SelectsIn(stmt.with_[i].this) : i \in 1..Len(stmt.with_)}
         \cup UNION {SelectsInExpr(stmt.expressions[i]) : i \in 1..Len(stmt.expressions)}
         \cup (IF stmt.where.k = "none" THEN {} ELSE SelectsInExpr(stmt.where))
SelectsInExpr(e) ==
    CASE e.k \in {"eq", "and", "or", "is"} -> SelectsInExpr(e.l) \cup SelectsInExpr(e.r)
      [] e.k = "paren" -> SelectsInExpr(e.e)
      [] e.k = "subquery" -> SelectsIn(e.this)
      [] e.k = "func" -> UNION {SelectsInExpr(e.args[i]) : i \in 1..Len(e.args)}
      [] OTHER -> {}

CteAliases(stmt) ==
    UNION {{sel.with_[i].alias : i \in 1..Len(sel.with_)} : sel \in SelectsIn(stmt)}

Accepted == ps.state = "parsed" /\ ps.exc = NULL

\* the names of the FROM sources that the validator resolves to the dataset
ReferencedDatasets(stmt) ==
    {sel.from_.this : sel \in
        {n \in SelectsIn(stmt) :
            n.from_.k = "table"
            /\ from_obj(n.from_.this, DatasetTable) = "table"}}

\* C13: for every accepted query, no name declared as a CTE alias anywhere in
\* the query is among the referenced dataset names: a FROM that names a CTE
\* is resolved to that CTE and never to the dataset.
C13_CteAliasNeverDataset ==
    Accepted => ReferencedDatasets(ps.parsed) \cap CteAliases(ps.parsed) = {}

------------------------------------------------------------------------------
(* Claims about execute_query, checked under Spec *)

\* the request carries no bearer token and addresses a catalogue dataset
\* whose access level is internal or restricted
AnonymousOnGated ==
    /\ ex.request.user = NoUser
    /\ ex.request.dataset_id \in DOMAIN catalogue
    /\ catalogue[ex.request.dataset_id].access_level \in {"internal", "restricted"}

\* C4 as stated: a request without bearer token for an internal or restricted
\* dataset is answered with 401, and it has made no database statement and
\* no outbound call when the 401 is produced.
C4_NothingBefore401 ==
    (ex.pc = "done" /\ AnonymousOnGated) =>
        /\ ex.response.status = 401
        /\ io = <<>>

\* C4 (amended): a request without bearer token for an internal or restricted
\* dataset is answered with 401; all it sends before the 401 is the one
\* catalogue lookup of its own dataset: no policy-engine call, no count
\* statement and no data statement.
C4_OnlyCatalogueLookupBefore401 ==
    AnonymousOnGated =>
        /\ ex.pc = "done" => ex.response.status = 401
        /\ io \in {<<>>, <<Statement("catalog", {ex.request.dataset_id})>>}

C4_Witness ==
    /\ AnonymousOnGated
    /\ policies_check_enabled
    /\ ex.pc = "done"
    /\ ex.response.status = 401
    /\ io = <<Statement("catalog", {ex.request.dataset_id})>>

\* C8: every table reference of a count or data statement sent to the
\* database is the backend_config.table of a catalogue entry that was
\* resolved for the request and passed enforce_dataset_access; no logical
\* dataset identifier of the user's SQL reaches the database.
C8_OnlyPhysicalTablesReachDb ==
    \A i \in 1..Len(io) :
        io[i].kind \in {"count", "data"} =>
            /\ io[i].tables \subseteq
                  {catalogue[d].backend_config.table : d \in ex.gated}
            /\ io[i].tables \cap ex.request.tables = {}

\* C14: resolve_datasets_for_tables raises 400 for an empty set of names;
\* when names have no catalogue entry it raises 400 whose detail lists
\* exactly the missing names; otherwise it returns a map whose keys are the
\* requested names. It issues one catalogue query for N names (none for the
\* empty set) and changes no state.
C14_ResolveDatasetsForTables ==
    [][ex.pc = "resolve_datasets_for_tables" =>
        LET names == ex.request.tables
            missing == names \ DOMAIN catalogue
        IN
        /\ names = {} =>
              /\ ex'.pc = "done" /\ ex'.response.status = 400
              /\ io' = io
        /\ (names # {} /\ missing # {}) =>
              /\ ex'.pc = "done" /\ ex'.response.status = 400
              /\ ex'.unknown = missing
        /\ (names # {} /\ missing = {}) =>
              /\ ex'.pc # "done"
              /\ DOMAIN ex'.datasets = names
              /\ \A n \in names : ex'.datasets[n] = catalogue[n]
        /\ names # {} => io' = Append(io, Statement("catalog", names))
        /\ catalogue' = catalogue
        /\ policy_engine' = policy_engine
        /\ gate' = gate]_vars

C14_Witness ==
    /\ ex.pc = "done"
    /\ ex.response.status = 400
    /\ ex.request.tables = {"ds.a", "ds.gone", "ds.lost"}
    /\ ex.unknown = {"ds.gone", "ds.lost"}
    /\ io[Len(io)] = Statement("catalog", ex.request.tables)

\* C17: the count statement and the data statement each run in their own
\* transaction, and the statement the session executed immediately before
\* each of them, in the same transaction, is SET LOCAL statement_timeout =
\* 2000.
C17_OwnTransactionWithTimeout ==
    LET log == ex.session.executed
        timed == {i \in DOMAIN log : log[i].sql.kind \in {"count", "data"}}
    IN
    \A i \in timed :
        /\ i > 1
        /\ log[i - 1].tx = log[i].tx
        /\ log[i - 1].sql = [kind |-> "SET LOCAL statement_timeout", value |-> 2000]
        /\ \A j \in DOMAIN log : log[j].tx = log[i].tx => j \in {i - 1, i}

\* the part of C17 that the code keeps: SET LOCAL statement_timeout = 2000
\* immediately precedes each count and data statement, in its transaction
SetLocalPrecedesQueries ==
    LET log == ex.session.executed IN
    \A i \in DOMAIN log :
        log[i].sql.kind \in {"count", "data"} =>
            /\ i > 1
            /\ log[i - 1].tx = log[i].tx
            /\ log[i - 1].sql = [kind |-> "SET LOCAL statement_timeout", value |-> 2000]

\* count and data statement of one request in one transaction
CountAndDataShareTransaction ==
    LET log == ex.session.executed IN
    \E i, j \in DOMAIN log :
        /\ log[i].sql.kind = "count"
        /\ log[j].sql.kind = "data"
        /\ log[i].tx = log[j].tx

\* the request executed a count or data statement
QueryExecuted ==
    \/ \E i \in DOMAIN io : io[i].kind \in {"count", "data"}
    \/ \E i \in DOMAIN ex.session.executed :
          ex.session.executed[i].sql.kind \in {"count", "data"}

\* the SQL was validated, and every dataset it references was resolved and
\* passed enforce_dataset_access
ValidatedResolvedGated ==
    /\ ex.request.parse = NULL
    /\ ex.request.tables # {}
    /\ ex.request.tables = DOMAIN ex.datasets
    /\ \A t \in ex.request.tables : ex.datasets[t] = catalogue[t]
    /\ ex.gated = ex.request.tables
    /\ \A t \in ex.request.tables : ex.datasets[t].expose

\* C18: within one request no count or data statement is executed until the
\* SQL has been validated and every dataset it references has been resolved
\* and has passed enforce_dataset_access; when validation, resolution or the
\* gate fails the request ends with an error, nothing has been executed
\* against the data tables and no result is returned; the response of a
\* finished request is never replaced.
C18_GateBeforeExecution ==
    /\ [](QueryExecuted \/ ex.pc \in {"count", "data"} => ValidatedResolvedGated)
    /\ [](ex.pc = "done" /\ ~ValidatedResolvedGated =>
             /\ ex.response.status \in 400..599
             /\ ~QueryExecuted)
    /\ [](ex.response.status = 200 => ValidatedResolvedGated /\ QueryExecuted)
    /\ [][ex.pc # "done"]_vars

C18_Witness ==
    /\ ex.pc = "done"
    /\ ex.request.tables = {"ds.a", "ds.b"}
    /\ ex.gated = {"ds.a"}
    /\ ex.response.status = 403
    /\ ~QueryExecuted

C18_WitnessExecuted ==
    /\ ex.pc = "done"
    /\ ex.request.tables = {"ds.a", "ds.b"}
    /\ ex.response.status = 200
    /\ QueryExecuted

------------------------------------------------------------------------------
(* Claims about the pagination, checked under SpecPage *)

\* C15 as stated: the effective limit of the data statement is
\* min(max(limit, 100), 10000) and the effective offset is max(offset, 0).
C15_LimitIsFloorThenCap ==
    ex.pc = "done" =>
        /\ io[1].params.limit = Min(Max(ex.request.limit, 100), 10000)
        /\ io[1].params.offset = Max(ex.request.offset, 0)

\* C15 (amended): the effective limit of the data statement is 100 when
\* limit <= 0 and min(limit, 10000) otherwise; the effective offset is
\* max(offset, 0).
C15_LimitIsDefaultOrCap ==
    ex.pc = "done" =>
        /\ io[1].params.limit =
              (IF ex.request.limit <= 0 THEN 100 ELSE Min(ex.request.limit, 10000))
        /\ io[1].params.offset = Max(ex.request.offset, 0)

C15_Witness ==
    /\ ex.pc = "done"
    /\ ex.request.limit = 50
    /\ ex.request.offset = -1
    /\ io[1].params = [limit |-> 50, offset |-> 0]

\* C16: the effective limit is 100 when limit <= 0, 10000 when limit > 10000
\* and limit itself otherwise, so it lies in 1..10000; the effective offset
\* is never negative; the response echoes the effective limit and offset,
\* and its count is the number of items and never exceeds the effective
\* limit.
C16_ResponseEchoesEffectivePagination ==
    ex.pc = "done" =>
        /\ ex.request.limit <= 0 => ex.limit = 100
        /\ ex.request.limit > 10000 => ex.limit = 10000
        /\ ex.request.limit \in 1..10000 => ex.limit = ex.request.limit
        /\ ex.limit \in 1..10000
        /\ ex.offset >= 0
        /\ ex.result.limit = ex.limit /\ io[1].params.limit = ex.limit
        /\ ex.result.offset = ex.offset /\ io[1].params.offset = ex.offset
        /\ ex.result.count = Len(ex.result.items)
        /\ ex.result.count <= ex.limit

C16_Witness ==
    /\ ex.pc = "done"
    /\ ex.request.limit = 2
    /\ ex.request.offset = 0
    /\ ex.total = 3
    /\ ex.result.count = 2
    /\ ex.result.limit = 2

------------------------------------------------------------------------------
(* Claims about the authenticated user, checked under SpecAuth *)

\* C19: the AuthenticatedUser produced from a valid bearer token carries that
\* token in its token field, and a handler that forwards the caller's token
\* sends the token the caller presented.
C19_UserCarriesPresentedToken ==
    /\ ~ex.user.isNone => ex.user.token = ex.credentials
    /\ \A i \in DOMAIN io :
          io[i].forward_token => io[i].authorization = ex.credentials

\* the handlers never send anything but no token at all
ForwardedTokenIsNone ==
    /\ ~ex.user.isNone => ex.user.token = NULL
    /\ \A i \in DOMAIN io : io[i].forward_token => io[i].authorization = NULL

\* the token carries scopes: a scopes claim, or a scope claim that lists some
CarriesScopes ==
    \/ "scopes" \in DOMAIN ex.jwt_user.claims
    \/ split(get(ex.jwt_user.claims, "scope", "")) # <<>>

CarriesGroups == get(ex.jwt_user.claims, "groups", <<>>) # <<>>

\* C20: the subject of the policy input has type service exactly when the
\* token carries scopes and no groups, type user for every other
\* authenticated token, and type anonymous when there is no user.
C20_SubjectType ==
    ex.pc \in {"row_filter", "done"} /\ ex.response.status # 401 =>
        IF ex.user.isNone
        THEN ex.subject.type = "anonymous"
        ELSE IF CarriesScopes /\ ~CarriesGroups
        THEN ex.subject.type = "service"
        ELSE ex.subject.type = "user"

\* what the code does: service exactly when the claims hold a key "scopes"
SubjectTypeByScopesKey ==
    ex.pc \in {"row_filter", "done"} /\ ex.response.status # 401 =>
        IF ex.user.isNone
        THEN ex.subject.type = "anonymous"
        ELSE IF "scopes" \in DOMAIN ex.jwt_user.claims
        THEN ex.subject.type = "service"
        ELSE ex.subject.type = "user"

------------------------------------------------------------------------------
(* Claims about the handler registry, checked under SpecRegistry *)

\* the handlers dict of the registry that get_row_filter_registry returns
Handlers(e) == e.state.heap[e.state.registry]

\* C23: once get_row_filter_registry has returned the initialised registry,
\* its handler map never changes, and every register call made after
\* start-up is rejected.
C23_ReadOnlyAfterStartup ==
    [][ex.pc = "ready" =>
          /\ ex'.state.registry = ex.state.registry
          /\ Handlers(ex') = Handlers(ex)
          /\ io'[Len(io')].call = "register" => io'[Len(io')].raised]_vars

\* the part of C23 that the code keeps: the registry object stays the same
\* and no handler is replaced or removed
HandlersOnlyAdded ==
    [][ex.pc = "ready" =>
          /\ ex'.state.registry = ex.state.registry
          /\ DOMAIN Handlers(ex) \subseteq DOMAIN Handlers(ex')
          /\ \A n \in DOMAIN Handlers(ex) : Handlers(ex')[n] = Handlers(ex)[n]]_vars

\* C27: after start-up the registry that get_row_filter_registry returns, on
\* the first and on every later call the same instance, contains the four
\* built-in handlers and every handler that a configured plugin module
\* registered through get_row_filter_registry().register while it was loaded.
C27_RegistryHoldsPluginHandlers ==
    ex.pc = "ready" =>
        /\ \A i \in DOMAIN io :
              io[i].call = "get_row_filter_registry" => io[i].ret = ex.state.registry
        /\ \A n \in DOMAIN BuiltinHandlers : n \in DOMAIN Handlers(ex)
        /\ \A i \in DOMAIN ex.config.modules :
              ex.config.plugin_handler[ex.config.modules[i]] \in DOMAIN Handlers(ex)

\* the part of C27 that the code keeps: one instance, with the built-ins
SameRegistryWithBuiltins ==
    ex.pc = "ready" =>
        /\ \A i \in DOMAIN io :
              io[i].call = "get_row_filter_registry" => io[i].ret = ex.state.registry
        /\ \A n \in DOMAIN BuiltinHandlers :
              n \in DOMAIN Handlers(ex) /\ Handlers(ex)[n] = BuiltinHandlers[n]

------------------------------------------------------------------------------
(* Claims about repeated application and table_pointer, checked under
   SpecPointer *)

\* w1 is w0 with conjuncts added: w0 is the leftmost operand of a chain of
\* ANDs, or there was no WHERE and w1 is such a chain
RECURSIVE Extends(_, _)
Extends(w0, w1) ==
    \/ w1 = w0
    \/ w0 = NoWhere /\ w1.k \in {"eq", "in", "bool"}
    \/ w1.k = "and" /\ w1.r.k \in {"eq", "in", "bool"} /\ Extends(w0, w1.l)

\* the number of conjuncts by which w1 extends w0
RECURSIVE AddedConjuncts(_, _)
AddedConjuncts(w0, w1) ==
    IF w1 = w0 THEN 0
    ELSE IF w1.k = "and" /\ Extends(w0, w1.l) THEN 1 + AddedConjuncts(w0, w1.l)
    ELSE 1

\* the (table occurrence, plan) pairs of a FROM
Matches(from, plans) ==
    {pair \in (DOMAIN from) \X (DOMAIN plans) :
        /\ plans[pair[2]].table = from[pair[1]].this
        /\ plans[pair[2]].kind = "predicate"}

RefersTo(column, query) ==
    IF column.table = NULL \/ column.table = alias_or_name(query.from[1])
    THEN table_name(query.from[1])
    ELSE column.table

\* the conjuncts of a WHERE that are IN (subquery) predicates
RECURSIVE InPredicates(_)
InPredicates(where) ==
    CASE where.k = "in" -> {where}
      [] where.k \in {"and", "or"} -> InPredicates(where.l) \cup InPredicates(where.r)
      [] where.k = "paren" -> InPredicates(where.e)
      [] OTHER -> {}

\* C28: when a table_pointer plan is applied to a table occurrence, only the
\* filtered column is qualified with the occurrence's alias;
\* pointer_key_column and pointer_subject_column inside the subquery still
\* refer to pointer_table.
C28_PointerColumnsReferToPointerTable ==
    rw.state = "rewritten" =>
        \A i \in DOMAIN rw.out : \A c \in InPredicates(rw.out[i].where) :
            /\ \E ti \in DOMAIN rw.ast[i].from :
                  c.this.table = alias_or_name(rw.ast[i].from[ti])
            /\ RefersTo(c.query.column, c.query) = table_name(c.query.from[1])
            /\ RefersTo(c.query.where.l, c.query) = table_name(c.query.from[1])

\* the part of C28 that the code keeps: the filtered column is qualified with
\* the alias of the occurrence
FilteredColumnQualified ==
    rw.state = "rewritten" =>
        \A i \in DOMAIN rw.out : \A c \in InPredicates(rw.out[i].where) :
            \E ti \in DOMAIN rw.ast[i].from :
                c.this.table = alias_or_name(rw.ast[i].from[ti])

------------------------------------------------------------------------------
(* Claims about http_in_list, checked under SpecHttp *)

\* the non-null items of the response, in response order
NonNull(items) ==
    SelectSeq(CASE items.kind = "none" -> <<>>
                [] items.kind = "list" -> items.items
                [] OTHER -> <<items.item>>,
              LAMBDA it : it.t # "null")

\* the configured max_items, 2000 when the argument is absent
Configured(arg) == IF arg.absent THEN 2000 ELSE arg.v

\* C25: http_in_list returns a deny plan exactly when the list has no
\* non-null item and empty_means_deny is true; the predicate TRUE when it has
\* none and empty_means_deny is false; otherwise column IN (...) whose literals
\* are the first min(n, max_items) non-null items in response order, so the
\* IN list is never empty and never longer than max_items.
C25_InListOfFirstItems ==
    ex.pc = "done" =>
        LET nn == NonNull(ex.items)
            n == Len(nn)
            max_items == Configured(ex.max_items)
        IN
        /\ ex.plan.kind = "deny" <=> (n = 0 /\ ex.empty_means_deny)
        /\ n = 0 /\ ~ex.empty_means_deny =>
              ex.plan.predicate_template = [k |-> "bool", v |-> "true"]
        /\ n > 0 =>
              /\ ex.plan.predicate_template.k = "in_list"
              /\ ex.plan.predicate_template.this = Column("sensor_id", NULL)
              /\ ex.plan.predicate_template.expressions =
                    [i \in 1..Min(n, max_items) |-> literal_of(nn[i])]
              /\ Len(ex.plan.predicate_template.expressions) >= 1
              /\ Len(ex.plan.predicate_template.expressions) <= max_items

\* C25 for a max_items argument that is absent or at least 1
C25_ForPositiveMaxItems ==
    ex.pc = "done" /\ (ex.max_items.absent \/ ex.max_items.v >= 1) =>
        C25_InListOfFirstItems

------------------------------------------------------------------------------
(* Claims about the depth of the AST, checked under SpecParse *)

SetMax(S) == CHOOSE m \in S : \A n \in S : n <= m

\* the longest walk from a node down to a leaf, counted in nodes
RECURSIVE ExprDepth(_), AstDepth(_)
ExprDepth(e) ==
    CASE e.k = "paren" -> 1 + ExprDepth(e.e)
      [] e.k \in {"and", "or", "eq", "is"} -> 1 + Max(ExprDepth(e.l), ExprDepth(e.r))
      [] e.k = "subquery" -> 1 + AstDepth(e.this)
      [] e.k = "func" ->
            1 + SetMax({0} \cup {ExprDepth(e.args[i]) : i \in 1..Len(e.args)})
      [] e.k = "none" -> 0
      [] OTHER -> 1
AstDepth(stmt) ==
    IF stmt.type # "Select" THEN 1
    ELSE 1 + SetMax({0, ExprDepth(stmt.where)}
                    \cup {AstDepth(stmt.with_[i].this) : i \in 1..Len(stmt.with_)}
                    \cup {ExprDepth(stmt.expressions[i]) : i \in 1..Len(stmt.expressions)})

\* the statement that sqlglot.parse_one returned, when it returned one
ParsedToStatement ==
    /\ ps.state = "parsed"
    /\ ps.parse_one_called
    /\ ps.parsed.type = "Select"

\* C26: the validator accepts a query whose AST depth is exactly the bound
\* (50) and rejects with 400 every query that is one level deeper or more.
C26_DepthBoundEnforced ==
    ParsedToStatement =>
        /\ ps.parsed \in DeepStatements /\ AstDepth(ps.parsed) = 50 => ps.exc = NULL
        /\ AstDepth(ps.parsed) > 50 => ps.exc = "HTTPException" /\ ps.status = 400

\* the nesting of parentheses never decides: every deeply nested query that
\* sqlglot.parse_one returns is accepted
DeepStatementsAccepted ==
    ParsedToStatement /\ ps.parsed \in DeepStatements => ps.exc = NULL

------------------------------------------------------------------------------
(* Claims about the cache key, checked under SpecKeys *)

\* what the claim compares of a call: handler name, table, sub and args
Identity(inputs) ==
    [handler |-> inputs.handler, table |-> inputs.table,
     sub |-> Sub(inputs.user), args |-> inputs.args]

\* the calls that have read or written the cache
Keyed == {c \in CallIds : calls[c].pc \in {"awaiting", "done"}}

\* C29: two resolve_with_cache calls read or write the same cache entry only
\* if they have the same handler name, table, sub and args; a plan computed
\* for one sub is never returned to a request made with a different sub,
\* whatever characters the table name, sub and args contain.
C29_EntrySharedOnlyBySameIdentity ==
    /\ \A c1 \in Keyed, c2 \in Keyed :
          calls[c1].key = calls[c2].key =>
              Identity(calls[c1].inputs) = Identity(calls[c2].inputs)
    /\ \A c \in CallIds :
          calls[c].pc = "done" =>
              Sub(calls[c].plan.resolved_for.user) = Sub(calls[c].inputs.user)

\* the second half of C29 alone: no call returns a plan computed for another sub
NoPlanOfAnotherSub ==
    \A c \in CallIds :
        calls[c].pc = "done" =>
            Sub(calls[c].plan.resolved_for.user) = Sub(calls[c].inputs.user)

\* the plan a call returns was computed for inputs with the same cache key
ReturnedPlanHasTheKey ==
    \A c \in CallIds :
        calls[c].pc = "done" =>
            LET for == calls[c].plan.resolved_for IN
            CacheKey(for.handler, for.table, Sub(for.user), for.args) = calls[c].key

------------------------------------------------------------------------------
(* Claims about concurrent writers, checked under SpecSnapshot *)

\* C30: in every successful response total and items are computed from the
\* same state of the data tables, so offset + count <= total whenever
\* count > 0, even when other sessions insert or delete rows between the
\* count statement and the data statement.
C30_TotalAndItemsFromOneState ==
    ex.pc = "done" =>
        /\ ex.count_saw = ex.data_saw
        /\ ex.result.count > 0 => ex.result.offset + ex.result.count <= ex.result.total

\* C30 for the requests during which no other session committed
ConsistentWithoutWrites ==
    ex.pc = "done" /\ io.writes = 0 => C30_TotalAndItemsFromOneState

====
